---- MODULE Spec2Model ----
(***************************************************************************)
(* Verification model of the LCH-Farrow fractional-delay code base.        *)
(*                                                                         *)
(* Part 1: radar::gpu::OpenCLManager (src/src/gpu/opencl_manager.cpp):     *)
(*         one-time initialisation, the compiled-program cache, teardown.  *)
(***************************************************************************)
EXTENDS Integers, Sequences, FiniteSets, TLC

(***************************************************************************)
(* Bounds of the model.                                                    *)
(***************************************************************************)
NumThreads == 2
MaxPrograms == 3
MaxCalls == 3
MaxContexts == 2
MaxClears == 1

Threads == 1..NumThreads
Sources == {"a", "b", "c"}
DeviceTypes == {"GPU", "CPU"}
ProgramIds == 1..MaxPrograms

VARIABLES
    is_initialized_,   \* OpenCLManager::is_initialized_
    device_type_,      \* OpenCLManager::device_type_
    device_,           \* OpenCLManager::device_   ("none" = nullptr)
    context_,          \* OpenCLManager::context_  (0 = nullptr)
    queue_,            \* OpenCLManager::queue_    (0 = nullptr)
    program_cache_,    \* OpenCLManager::program_cache_ : hash -> program (0 = no entry)
    mgr_pc,            \* per thread: position inside the manager call it is executing
    mgr_arg,           \* per thread: argument of the running call (source text / device type)
    mgr_local,         \* per thread: locals of the running call (hash, program)
    mgr_destroyed,     \* ~OpenCLManager has run (static destruction at process exit)
    cl_contexts,       \* OpenCL runtime: number of clCreateContext successes so far
    cl_queues,         \* OpenCL runtime: number of clCreateCommandQueue successes so far
    cl_ctx_released,   \* OpenCL runtime: set of contexts passed to clReleaseContext
    cl_queue_released, \* OpenCL runtime: set of queues passed to clReleaseCommandQueue
    cl_programs,       \* OpenCL runtime: program id -> source it was built from ("" = not created)
    cl_prog_released,  \* OpenCL runtime: program id -> number of clReleaseProgram calls
    calls_started,     \* number of GetOrCompileProgram calls started (bounds the run)
    clears,            \* number of ClearProgramCache calls so far
    ret_log            \* history: completed GetOrCompileProgram calls

mgrVars == <<is_initialized_, device_type_, device_, context_, queue_, program_cache_,
             mgr_pc, mgr_arg, mgr_local, mgr_destroyed, cl_contexts, cl_queues,
             cl_ctx_released, cl_queue_released, cl_programs, cl_prog_released,
             calls_started, clears, ret_log>>

(***************************************************************************)
(* Part 2: OpenCLBackend (src/src/gpu_backend/opencl_backend.cpp) and its  *)
(* callers FractionalDelayGPU (src/src/fractional_delay_gpu.cpp) and       *)
(* GPUProcessor (src/src/gpu_processor.cpp).                               *)
(***************************************************************************)
MaxBuffers == 2
MaxBeams == 1
NumObjects == 1
NumSharing == 1

BufferIds == 1..MaxBuffers
Objects == 1..NumObjects
\* all the FractionalDelayGPU objects that are handed one and the same backend pointer
SharingObjects == 1..(NumObjects + NumSharing)

VARIABLES
    initialized_,               \* OpenCLBackend::initialized_
    lagrange_matrix_uploaded_,  \* OpenCLBackend::lagrange_matrix_uploaded_
    upload_since_init,          \* history: UploadLagrangeMatrix succeeded since the backend
                                \* last went from uninitialized to initialized
    dev_allocated,              \* number of cl::Buffer objects AllocateDeviceMemory has created
    dev_frees,                  \* buffer id -> number of times FreeDeviceMemory deleted it
    be_last,                    \* the last backend call made directly and what it returned
    fd_alive,                   \* FractionalDelayGPU object -> constructed and not destroyed
    fd_is_initialized_,         \* FractionalDelayGPU::is_initialized_ per object
    proc                        \* the processing call in progress (pc, locals, arguments)

gpuVars == <<initialized_, lagrange_matrix_uploaded_, upload_since_init, dev_allocated,
             dev_frees, be_last, fd_alive, fd_is_initialized_, proc>>

\* ExecuteFractionalDelayCPU: the tap of the interpolation window evaluated last
MaxSamples == 6
MaxDelay == 8
LAGRANGE_COLS == 5

VARIABLES tap

cpuVars == <<tap>>

\* the delay of one beam and what each implementation derives from it
MaxEighths == 20
MaxTinyExp == 6
MantissaBits == 24
LAGRANGE_ROWS == 48

VARIABLES dec

delayVars == <<dec>>

\* one dispatch of the fractional_delay kernel over device memory
MaxKernelSamples == 3
MaxKernelDelay == 1

VARIABLES kern, dev_mem

kernelVars == <<kern, dev_mem>>

\* ProcessingPipeline: its device buffer member and the position of ExecuteFull
VARIABLES pipe

pipeVars == <<pipe>>

\* the profiled, non-blocking path: the command queue, the three events and the host
MaxQueueInput == 3

VARIABLES queue_cmds, event_status, host, exec_log, read_log, dev_data, out_host, output_data

queueVars == <<queue_cmds, event_status, host, exec_log, read_log, dev_data, out_host, output_data>>

\* SignalBuffer objects, the file they are saved to and loaded from
MaxSbBeams == 1
MaxExtraSamples == 0
MaxPattern == 1
MinValidSamples == 100
MaxValidSamples == 1300000
MaxValidBeams == 256

VARIABLES sb, file, io_last, saved

sbVars == <<sb, file, io_last, saved>>

\* CPU and GPU result buffers and the last comparison made of them
MaxCmpExtra == 1
MaxTolerance == 1

VARIABLES cpu_results, gpu_results, cmp

cmpVars == <<cpu_results, gpu_results, cmp>>

\* ProfilingEngine
MaxMeasurements == 3

VARIABLES metrics_, total_time_ms, start_times_, profiling_enabled_, measured, prof_last

profVars == <<metrics_, total_time_ms, start_times_, profiling_enabled_, measured, prof_last>>

\* the last call of LagrangeMatrix::GetRowIndex
VARIABLES row_call

rowVars == <<row_call>>

\* one call of ExecuteFractionalDelayCPU on a buffer of one beam
MaxRunSamples == 3

VARIABLES cpu_run

cpuRunVars == <<cpu_run>>

\* LagrangeMatrix and the JSON file it is loaded from
ROWS == 48
COLS == 5
MaxExtraRows == 1
MaxDigit == 2

VARIABLES matrix_, json_file, lm_last

lmVars == <<matrix_, json_file, lm_last>>

\* users of the OpenCLManager: explicit Cleanup() calls and objects that keep a
\* program returned by GetOrCompileProgram
VARIABLES
    cleaned_up,   \* OpenCLManager::Cleanup() returned and no manager call has run since
    held          \* programs stored in program_ of a live object

useVars == <<cleaned_up, held>>

\* the copy of the result into the output SignalBuffer at the end of a processing call
MaxStoreBeams == 2
MaxStoreExtra == 1

VARIABLES store

storeVars == <<store>>

\* ComplexVector and GeneratorGPU objects that are constructed, moved and destroyed
MaxConstructions == 2
MaxMoves == 2

VARIABLES
    mv_objs,      \* object -> its class, whether it is alive, and its handle members
    mv_created,   \* the class of every object constructed from scratch so far; the
                  \* handles created by the k-th constructor carry the number k
    mv_released,  \* handle number -> kind -> number of clRelease* calls on it
    mv_moves      \* number of move constructions and move assignments so far

moveVars == <<mv_objs, mv_created, mv_released, mv_moves>>

vars == <<mgrVars, gpuVars, cpuVars, delayVars, kernelVars, pipeVars, queueVars, sbVars, cmpVars, profVars, rowVars, cpuRunVars, lmVars, useVars, storeVars, moveVars>>

(***************************************************************************)
(* OpenCLManager::GetSourceHash: std::hash<std::string> rendered as 16 hex *)
(* digits.  The hex rendering is injective on the 64-bit value; std::hash  *)
(* itself maps arbitrarily many strings to 2^64 values, so distinct texts  *)
(* may share a hash.  Sources "a" and "c" stand for such a pair.           *)
(***************************************************************************)
StdHash(source) == IF source = "b" THEN 2 ELSE 1

GetSourceHash(source) == StdHash(source)

Hashes == {GetSourceHash(s) : s \in Sources}

(***************************************************************************)
(* program_cache_.find(hash): the cached program, 0 when there is no entry.*)
(***************************************************************************)
CacheFind(cache, hash) == cache[hash]

\* mutant: the insert after a compile is lost
CacheStoreLost(cache, hash, program) == cache

(* program_cache_[hash] = program *)
CacheStore(cache, hash, program) == [cache EXCEPT ![hash] = program]

NoLocal == [hash |-> 0, program |-> 0, clears |-> 0]

AllIdle == \A t \in Threads : mgr_pc[t] = "idle"

Alive == ~mgr_destroyed

MgrInit ==
    /\ is_initialized_ = FALSE
    /\ device_type_ = "GPU"
    /\ device_ = "none"
    /\ context_ = 0
    /\ queue_ = 0
    /\ program_cache_ = [h \in Hashes |-> 0]
    /\ mgr_pc = [t \in Threads |-> "idle"]
    /\ mgr_arg = [t \in Threads |-> ""]
    /\ mgr_local = [t \in Threads |-> NoLocal]
    /\ mgr_destroyed = FALSE
    /\ cl_contexts = 0
    /\ cl_queues = 0
    /\ cl_ctx_released = {}
    /\ cl_queue_released = {}
    /\ cl_programs = [p \in ProgramIds |-> ""]
    /\ cl_prog_released = [p \in ProgramIds |-> 0]
    /\ calls_started = 0
    /\ clears = 0
    /\ ret_log = {}

(***************************************************************************)
(* OpenCL runtime helpers.                                                 *)
(***************************************************************************)
\* clReleaseProgram on every program in the set ps
ReleasePrograms(released, ps) ==
    [p \in ProgramIds |-> IF p \in ps THEN released[p] + 1 ELSE released[p]]

\* the programs held by the cache (entries with a non-null program)
CachedPrograms(cache) == {cache[h] : h \in Hashes} \ {0}

\* the id clCreateProgramWithSource hands out next (0: the bound is exhausted)
FreshProgram ==
    IF \E p \in ProgramIds : cl_programs[p] = ""
    THEN CHOOSE p \in ProgramIds : cl_programs[p] = "" /\ \A q \in ProgramIds : q < p => cl_programs[q] # ""
    ELSE 0

\* clGetDeviceIDs(platform_, device_type, ...)[0]
FirstDevice(device_type) == IF device_type = "GPU" THEN "gpu0" ELSE "cpu0"

\* a completed GetOrCompileProgram call, as the caller observed it
ReturnRecord(t, program, compiled) ==
    [source |-> mgr_arg[t], program |-> program, compiled |-> compiled,
     clears_at_call |-> mgr_local[t].clears, clears_at_return |-> clears]

Finish(t) ==
    /\ mgr_pc' = [mgr_pc EXCEPT ![t] = "idle"]
    /\ mgr_arg' = [mgr_arg EXCEPT ![t] = ""]
    /\ mgr_local' = [mgr_local EXCEPT ![t] = NoLocal]

(***************************************************************************)
(* OpenCLManager::Initialize / InitializeOpenCL                            *)
(***************************************************************************)
\* Initialize, line 54: the unguarded test of is_initialized_
InitializeCheck(t, device_type) ==
    /\ Alive
    /\ mgr_pc[t] = "idle"
    /\ IF is_initialized_
       THEN UNCHANGED <<mgr_pc, mgr_arg>>          \* "already initialized, skipping"
       ELSE /\ mgr_pc' = [mgr_pc EXCEPT ![t] = "init_device"]
            /\ mgr_arg' = [mgr_arg EXCEPT ![t] = device_type]
    /\ UNCHANGED <<is_initialized_, device_type_, device_, context_, queue_, program_cache_,
                   mgr_local, mgr_destroyed, cl_contexts, cl_queues, cl_ctx_released,
                   cl_queue_released, cl_programs, cl_prog_released, calls_started,
                   clears, ret_log>>

\* InitializeOpenCL, lines 80-110: platform and device lookup succeed
InitializeDevice(t) ==
    /\ mgr_pc[t] = "init_device"
    /\ device_type_' = mgr_arg[t]
    /\ device_' = FirstDevice(mgr_arg[t])
    /\ mgr_pc' = [mgr_pc EXCEPT ![t] = "init_context"]
    /\ UNCHANGED <<is_initialized_, context_, queue_, program_cache_, mgr_arg,
                   mgr_local, mgr_destroyed, cl_contexts, cl_queues, cl_ctx_released,
                   cl_queue_released, cl_programs, cl_prog_released, calls_started,
                   clears, ret_log>>

\* InitializeOpenCL, lines 80-108: no platform or no device of that type: throws
InitializeDeviceThrow(t) ==
    /\ mgr_pc[t] = "init_device"
    /\ device_type_' = mgr_arg[t]
    /\ Finish(t)
    /\ UNCHANGED <<is_initialized_, device_, context_, queue_, program_cache_,
                   mgr_destroyed, cl_contexts, cl_queues, cl_ctx_released,
                   cl_queue_released, cl_programs, cl_prog_released, calls_started,
                   clears, ret_log>>

\* InitializeOpenCL, line 113: clCreateContext succeeds
InitializeContext(t) ==
    /\ mgr_pc[t] = "init_context"
    /\ cl_contexts < MaxContexts
    /\ cl_contexts' = cl_contexts + 1
    /\ context_' = cl_contexts + 1
    /\ mgr_pc' = [mgr_pc EXCEPT ![t] = "init_queue"]
    /\ UNCHANGED <<is_initialized_, device_type_, device_, queue_, program_cache_, mgr_arg,
                   mgr_local, mgr_destroyed, cl_queues, cl_ctx_released,
                   cl_queue_released, cl_programs, cl_prog_released, calls_started,
                   clears, ret_log>>

\* InitializeOpenCL, lines 113-116: clCreateContext fails (returns NULL): throws
InitializeContextThrow(t) ==
    /\ mgr_pc[t] = "init_context"
    /\ context_' = 0
    /\ Finish(t)
    /\ UNCHANGED <<is_initialized_, device_type_, device_, queue_, program_cache_,
                   mgr_destroyed, cl_contexts, cl_queues, cl_ctx_released,
                   cl_queue_released, cl_programs, cl_prog_released, calls_started,
                   clears, ret_log>>

\* InitializeOpenCL, line 119: clCreateCommandQueue succeeds
InitializeQueue(t) ==
    /\ mgr_pc[t] = "init_queue"
    /\ cl_queues' = cl_queues + 1
    /\ queue_' = cl_queues + 1
    /\ mgr_pc' = [mgr_pc EXCEPT ![t] = "init_flag"]
    /\ UNCHANGED <<is_initialized_, device_type_, device_, context_, program_cache_, mgr_arg,
                   mgr_local, mgr_destroyed, cl_contexts, cl_ctx_released,
                   cl_queue_released, cl_programs, cl_prog_released, calls_started,
                   clears, ret_log>>

\* InitializeOpenCL, lines 119-124: clCreateCommandQueue fails: context released, throws
InitializeQueueThrow(t) ==
    /\ mgr_pc[t] = "init_queue"
    /\ queue_' = 0
    /\ cl_ctx_released' = cl_ctx_released \cup ({context_} \ {0})
    /\ context_' = 0
    /\ Finish(t)
    /\ UNCHANGED <<is_initialized_, device_type_, device_, program_cache_,
                   mgr_destroyed, cl_contexts, cl_queues,
                   cl_queue_released, cl_programs, cl_prog_released, calls_started,
                   clears, ret_log>>

\* Initialize, line 61: mgr.is_initialized_ = true
InitializeDone(t) ==
    /\ mgr_pc[t] = "init_flag"
    /\ is_initialized_' = TRUE
    /\ Finish(t)
    /\ UNCHANGED <<device_type_, device_, context_, queue_, program_cache_,
                   mgr_destroyed, cl_contexts, cl_queues, cl_ctx_released,
                   cl_queue_released, cl_programs, cl_prog_released, calls_started,
                   clears, ret_log>>

(***************************************************************************)
(* OpenCLManager::GetOrCompileProgram / CompileProgram                     *)
(***************************************************************************)
openclState == <<is_initialized_, device_type_, device_, context_, queue_, mgr_destroyed,
                 cl_contexts, cl_queues, cl_ctx_released, cl_queue_released>>

\* line 176: std::string hash = GetSourceHash(source)
GetOrCompileProgramCall(t, source) ==
    /\ Alive
    /\ mgr_pc[t] = "idle"
    /\ calls_started < MaxCalls
    /\ calls_started' = calls_started + 1
    /\ mgr_pc' = [mgr_pc EXCEPT ![t] = "gocp_lookup"]
    /\ mgr_arg' = [mgr_arg EXCEPT ![t] = source]
    /\ mgr_local' = [mgr_local EXCEPT ![t] =
           [hash |-> GetSourceHash(source), program |-> 0, clears |-> clears]]
    /\ UNCHANGED <<openclState, program_cache_, cl_programs, cl_prog_released, clears, ret_log>>

\* lines 178-187: the lookup under cache_mutex_; a hit returns the cached program
GetOrCompileProgramLookup(t) ==
    /\ mgr_pc[t] = "gocp_lookup"
    /\ LET found == CacheFind(program_cache_, mgr_local[t].hash) IN
       IF found # 0
       THEN /\ ret_log' = ret_log \cup {ReturnRecord(t, found, FALSE)}
            /\ Finish(t)
       ELSE /\ mgr_pc' = [mgr_pc EXCEPT ![t] = "gocp_compile"]
            /\ UNCHANGED <<mgr_arg, mgr_local, ret_log>>
    /\ UNCHANGED <<openclState, program_cache_, cl_programs, cl_prog_released,
                   calls_started, clears>>

\* line 190 (CompileProgram, lines 141-173): built outside the lock
CompileProgram(t) ==
    /\ mgr_pc[t] = "gocp_compile"
    /\ is_initialized_
    /\ FreshProgram # 0
    /\ cl_programs' = [cl_programs EXCEPT ![FreshProgram] = mgr_arg[t]]
    /\ mgr_local' = [mgr_local EXCEPT ![t].program = FreshProgram]
    /\ mgr_pc' = [mgr_pc EXCEPT ![t] = "gocp_insert"]
    /\ UNCHANGED <<openclState, program_cache_, mgr_arg, cl_prog_released,
                   calls_started, clears, ret_log>>

\* CompileProgram throws: manager not initialized (line 142), or the program cannot
\* be created or built (lines 153-170; a program that fails to build is released there)
CompileProgramThrow(t) ==
    /\ mgr_pc[t] = "gocp_compile"
    /\ Finish(t)
    /\ UNCHANGED <<openclState, program_cache_, cl_programs, cl_prog_released,
                   calls_started, clears, ret_log>>

\* lines 193-198: program_cache_[hash] = program under cache_mutex_; return program
GetOrCompileProgramInsert(t) ==
    /\ mgr_pc[t] = "gocp_insert"
    /\ program_cache_' = CacheStore(program_cache_, mgr_local[t].hash, mgr_local[t].program)
    /\ ret_log' = ret_log \cup {ReturnRecord(t, mgr_local[t].program, TRUE)}
    /\ Finish(t)
    /\ UNCHANGED <<openclState, cl_programs, cl_prog_released, calls_started, clears>>

(***************************************************************************)
(* OpenCLManager::ClearProgramCache (lines 272-283), under cache_mutex_    *)
(***************************************************************************)
ClearProgramCache(t) ==
    /\ Alive
    /\ mgr_pc[t] = "idle"
    /\ clears < MaxClears
    /\ cl_prog_released' = ReleasePrograms(cl_prog_released, CachedPrograms(program_cache_))
    /\ program_cache_' = [h \in Hashes |-> 0]
    /\ clears' = clears + 1
    /\ UNCHANGED <<openclState, mgr_pc, mgr_arg, mgr_local, cl_programs, calls_started, ret_log>>

(***************************************************************************)
(* OpenCLManager::~OpenCLManager (lines 14-35): destruction of the         *)
(* function-local static at process exit, after every caller has returned. *)
(***************************************************************************)
DestroyManager ==
    /\ Alive
    /\ AllIdle
    /\ cl_prog_released' = ReleasePrograms(cl_prog_released, CachedPrograms(program_cache_))
    /\ program_cache_' = [h \in Hashes |-> 0]
    /\ cl_queue_released' = cl_queue_released \cup ({queue_} \ {0})
    /\ queue_' = 0
    /\ cl_ctx_released' = cl_ctx_released \cup ({context_} \ {0})
    /\ context_' = 0
    /\ mgr_destroyed' = TRUE
    /\ UNCHANGED <<is_initialized_, device_type_, device_, mgr_pc, mgr_arg, mgr_local,
                   cl_contexts, cl_queues, cl_programs, calls_started, clears, ret_log>>

\* the steps a thread takes once it is inside a manager call
MgrStep(t) ==
    \/ InitializeDevice(t)
    \/ InitializeDeviceThrow(t)
    \/ InitializeContext(t)
    \/ InitializeContextThrow(t)
    \/ InitializeQueue(t)
    \/ InitializeQueueThrow(t)
    \/ InitializeDone(t)
    \/ GetOrCompileProgramLookup(t)
    \/ CompileProgram(t)
    \/ CompileProgramThrow(t)
    \/ GetOrCompileProgramInsert(t)

\* threads call the manager at any time
MgrNext ==
    \/ \E t \in Threads : \E d \in DeviceTypes : InitializeCheck(t, d)
    \/ \E t \in Threads : \E s \in Sources : GetOrCompileProgramCall(t, s)
    \/ \E t \in Threads : ClearProgramCache(t)
    \/ \E t \in Threads : MgrStep(t)
    \/ DestroyManager

\* calls never overlap: a call starts only when no other call is running
MgrSeqNext ==
    \/ \E t \in Threads : \E d \in DeviceTypes : AllIdle /\ InitializeCheck(t, d)
    \/ \E t \in Threads : \E s \in Sources : AllIdle /\ GetOrCompileProgramCall(t, s)
    \/ \E t \in Threads : AllIdle /\ ClearProgramCache(t)
    \/ \E t \in Threads : MgrStep(t)
    \/ DestroyManager


(***************************************************************************)
(* Claims about OpenCLManager                                              *)
(***************************************************************************)
\* the record r comes from a call during which the cache was not cleared
Undisturbed(r) == r.clears_at_call = r.clears_at_return

\* C1: when calls do not overlap, a call of GetOrCompileProgram(s) that follows a
\* completed call for the same text s, with no ClearProgramCache in between, returns
\* the handle the earlier call returned and does not compile.
C1_RepeatedSourceHitsCache ==
    [][\A r \in ret_log' \ ret_log : \A q \in ret_log :
          (q.source = r.source /\ q.clears_at_return = r.clears_at_call)
              => (r.program = q.program /\ ~r.compiled)]_vars

\* C1 witness: a source was compiled by one call and served from the cache to a later one
C1_Witness ==
    \E r, q \in ret_log :
        /\ r.source = q.source /\ r.program = q.program
        /\ r.compiled /\ ~q.compiled
        /\ cl_programs[r.program] = r.source

\* C2: all calls for one source text, none of them disturbed by a ClearProgramCache,
\* receive one and the same program, and at most one of them compiled it.
C2_ConcurrentCallersShareProgram ==
    \A r, q \in ret_log :
        (/\ r.source = q.source
         /\ Undisturbed(r) /\ Undisturbed(q)
         /\ r.clears_at_return = q.clears_at_return)
            => (r.program = q.program /\ (r.compiled /\ q.compiled => r = q))

\* C3: once is_initialized_ is set, no step of any Initialize call creates, replaces
\* or releases the context or the queue (so at most one of each is ever created).
C3_InitializeOnlyOnce ==
    [][(is_initialized_ /\ ~mgr_destroyed')
          => /\ context_' = context_ /\ queue_' = queue_
             /\ cl_contexts' = cl_contexts /\ cl_queues' = cl_queues
             /\ cl_ctx_released' = cl_ctx_released
             /\ cl_queue_released' = cl_queue_released]_vars

\* C4: after ~OpenCLManager every program that was built has been released exactly once.
C4_ProgramsReleasedOnce ==
    mgr_destroyed =>
        \A p \in ProgramIds : cl_programs[p] # "" => cl_prog_released[p] = 1

(***************************************************************************)
(* OpenCLBackend: the state changes and return values of its methods       *)
(***************************************************************************)
NoCall == [op |-> "none", ret |-> FALSE, dispatched |-> FALSE, since_init |-> FALSE]

\* what a call of ExecuteFractionalDelay[WithProfiling] leaves in be_last
CallRecord(op, ret, dispatched) ==
    [op |-> op, ret |-> ret, dispatched |-> dispatched, since_init |-> upload_since_init]

NoProc == [pc |-> "idle", variant |-> "none", dev |-> 0,
           in_beams |-> 0, out_beams |-> 0, coeffs_null |-> FALSE, ret |-> FALSE, exit |-> "none"]

GpuInit ==
    /\ initialized_ = FALSE
    /\ lagrange_matrix_uploaded_ = FALSE
    /\ upload_since_init = FALSE
    /\ dev_allocated = 0
    /\ dev_frees = [b \in BufferIds |-> 0]
    /\ be_last = NoCall
    /\ fd_alive = [o \in SharingObjects |-> FALSE]
    /\ fd_is_initialized_ = [o \in SharingObjects |-> FALSE]
    /\ proc = NoProc

\* OpenCLBackend::Initialize (lines 20-68): true at once when already initialized;
\* otherwise device, context, queue and program set-up either all succeed or it fails
InitializeReturns(succeeds) == initialized_ \/ succeeds

InitializeEffect(succeeds) ==
    /\ initialized_' = (initialized_ \/ succeeds)
    /\ upload_since_init' = IF ~initialized_ /\ succeeds THEN FALSE ELSE upload_since_init
    /\ UNCHANGED lagrange_matrix_uploaded_

\* mutant: Cleanup forgets to drop the coefficient table
CleanupKeepsMatrix ==
    /\ initialized_' = FALSE
    /\ UNCHANGED <<lagrange_matrix_uploaded_, upload_since_init>>

\* OpenCLBackend::Cleanup (lines 70-91)
CleanupEffect ==
    /\ IF ~initialized_
       THEN UNCHANGED <<initialized_, lagrange_matrix_uploaded_>>
       ELSE /\ lagrange_matrix_uploaded_' = FALSE
            /\ initialized_' = FALSE
    /\ UNCHANGED upload_since_init

\* OpenCLBackend::UploadLagrangeMatrix (lines 853-877)
UploadReturns(data_null, succeeds) == initialized_ /\ ~data_null /\ succeeds

UploadEffect(data_null, succeeds) ==
    /\ lagrange_matrix_uploaded_' = (lagrange_matrix_uploaded_ \/ UploadReturns(data_null, succeeds))
    /\ upload_since_init' = (upload_since_init \/ UploadReturns(data_null, succeeds))
    /\ UNCHANGED initialized_

\* how the dispatch part of ExecuteFractionalDelay can end
DispatchOutcomes == {"ok", "setarg_error", "enqueue_error", "finish_error"}

\* the profiling variant returns straight after the enqueue
ProfilingOutcomes == DispatchOutcomes \ {"finish_error"}

\* OpenCLBackend::ExecuteFractionalDelay (lines 166-254): return value and whether
\* enqueueNDRangeKernel put a kernel on the queue
ExecuteFractionalDelay(device_buffer, coeffs_null, outcome) ==
    IF ~initialized_ \/ device_buffer = 0 \/ coeffs_null
    THEN [ret |-> FALSE, dispatched |-> FALSE]
    ELSE IF ~lagrange_matrix_uploaded_
    THEN [ret |-> FALSE, dispatched |-> FALSE]
    ELSE [ret |-> outcome = "ok", dispatched |-> outcome \in {"ok", "finish_error"}]

\* OpenCLBackend::ExecuteFractionalDelayWithProfiling (lines 465-546): no finish()
ExecuteFractionalDelayWithProfiling(device_buffer, coeffs_null, outcome) ==
    IF ~initialized_ \/ device_buffer = 0 \/ coeffs_null
    THEN [ret |-> FALSE, dispatched |-> FALSE]
    ELSE IF ~lagrange_matrix_uploaded_
    THEN [ret |-> FALSE, dispatched |-> FALSE]
    ELSE [ret |-> outcome = "ok", dispatched |-> outcome = "ok"]

\* OpenCLBackend::AllocateDeviceMemory (lines 93-111): the new buffer, 0 for nullptr
AllocateDeviceMemory(succeeds) ==
    IF ~initialized_ THEN 0
    ELSE IF succeeds /\ dev_allocated < MaxBuffers THEN dev_allocated + 1
    ELSE 0

\* OpenCLBackend::FreeDeviceMemory (lines 113-120)
FreeDeviceMemory(frees, ptr) ==
    IF ptr = 0 THEN frees ELSE [frees EXCEPT ![ptr] = @ + 1]

\* OpenCLBackend::CopyHostToDevice (lines 122-142), CopyHostToDeviceWithProfiling (436-463)
CopyHostToDevice(dst, src_null, succeeds) ==
    IF ~initialized_ \/ dst = 0 \/ src_null THEN FALSE ELSE succeeds

\* OpenCLBackend::CopyDeviceToHost (lines 144-164), CopyDeviceToHostWithProfiling (548-575)
CopyDeviceToHost(dst_null, src, succeeds) ==
    IF ~initialized_ \/ dst_null \/ src = 0 THEN FALSE ELSE succeeds

\* buffers that were allocated and not yet freed
LiveBuffers == {b \in BufferIds : b <= dev_allocated /\ dev_frees[b] = 0}

ProcIdle == proc.pc = "idle"

(***************************************************************************)
(* The backend called directly through IGPUBackend                         *)
(***************************************************************************)
BackendInitialize(succeeds) ==
    /\ ProcIdle
    /\ InitializeEffect(succeeds)
    /\ UNCHANGED be_last
    /\ UNCHANGED <<dev_allocated, dev_frees, fd_alive, fd_is_initialized_, proc>>

BackendCleanup ==
    /\ ProcIdle
    /\ CleanupEffect
    /\ UNCHANGED be_last
    /\ UNCHANGED <<dev_allocated, dev_frees, fd_alive, fd_is_initialized_, proc>>

BackendUploadLagrangeMatrix(data_null, succeeds) ==
    /\ ProcIdle
    /\ UploadEffect(data_null, succeeds)
    /\ UNCHANGED be_last
    /\ UNCHANGED <<dev_allocated, dev_frees, fd_alive, fd_is_initialized_, proc>>

BackendExecute(device_buffer, coeffs_null, outcome) ==
    /\ ProcIdle
    /\ LET r == ExecuteFractionalDelay(device_buffer, coeffs_null, outcome) IN
       be_last' = CallRecord("ExecuteFractionalDelay", r.ret, r.dispatched)
    /\ UNCHANGED <<initialized_, lagrange_matrix_uploaded_, upload_since_init,
                   dev_allocated, dev_frees, fd_alive, fd_is_initialized_, proc>>

BackendExecuteWithProfiling(device_buffer, coeffs_null, outcome) ==
    /\ ProcIdle
    /\ LET r == ExecuteFractionalDelayWithProfiling(device_buffer, coeffs_null, outcome) IN
       be_last' = CallRecord("ExecuteFractionalDelayWithProfiling", r.ret, r.dispatched)
    /\ UNCHANGED <<initialized_, lagrange_matrix_uploaded_, upload_since_init,
                   dev_allocated, dev_frees, fd_alive, fd_is_initialized_, proc>>

BackendAllocate(succeeds) ==
    /\ ProcIdle
    /\ LET ptr == AllocateDeviceMemory(succeeds) IN
       /\ dev_allocated' = IF ptr = 0 THEN dev_allocated ELSE ptr
       /\ UNCHANGED be_last
    /\ UNCHANGED <<initialized_, lagrange_matrix_uploaded_, upload_since_init,
                   dev_frees, fd_alive, fd_is_initialized_, proc>>

BackendFree(ptr) ==
    /\ ProcIdle
    /\ ptr \in LiveBuffers
    /\ dev_frees' = FreeDeviceMemory(dev_frees, ptr)
    /\ UNCHANGED be_last
    /\ UNCHANGED <<initialized_, lagrange_matrix_uploaded_, upload_since_init,
                   dev_allocated, fd_alive, fd_is_initialized_, proc>>

(***************************************************************************)
(* FractionalDelayGPU construction and destruction (lines 12-26); the      *)
(* backend pointer is not owned and may be given to several objects.       *)
(***************************************************************************)
FractionalDelayGPUCreate(o, succeeds) ==
    /\ ProcIdle
    /\ ~fd_alive[o]
    /\ fd_alive' = [fd_alive EXCEPT ![o] = TRUE]
    /\ fd_is_initialized_' = [fd_is_initialized_ EXCEPT ![o] = InitializeReturns(succeeds)]
    /\ InitializeEffect(succeeds)
    /\ UNCHANGED <<dev_allocated, dev_frees, be_last, proc>>

FractionalDelayGPUDestroy(o) ==
    /\ ProcIdle
    /\ fd_alive[o]
    /\ fd_alive' = [fd_alive EXCEPT ![o] = FALSE]
    /\ fd_is_initialized_' = [fd_is_initialized_ EXCEPT ![o] = FALSE]
    /\ CleanupEffect
    /\ UNCHANGED <<dev_allocated, dev_frees, be_last, proc>>

(***************************************************************************)
(* One processing call: FractionalDelayGPU::ProcessFractionalDelay,        *)
(* ...WithDetailedProfiling and GPUProcessor::ProcessFractionalDelay.      *)
(* The host is single threaded, nothing else runs until the call returns.  *)
(***************************************************************************)
Variants == {"FractionalDelayGPU", "DetailedProfiling", "GPUProcessor"}

\* SignalBuffer::GetBeamData is nullptr exactly for beam_id >= num_beams_
GetBeamDataNull(num_beams, beam_id) == beam_id >= num_beams

\* the beam loop of the call meets a beam whose pointer is null
SomeBeamNull(loop_beams, num_beams) ==
    \E b \in 0..(loop_beams - 1) : GetBeamDataNull(num_beams, b)

\* FractionalDelayGPU::ValidateInput (lines 260-277)
ValidateInput(input_valid, coeffs_null, in_beams) ==
    input_valid /\ ~coeffs_null /\ in_beams # 0

\* the call returns: its locals are gone, the caller sees the return value
ProcReturn(ret, exit) ==
    [NoProc EXCEPT !.pc = "done", !.variant = proc.variant, !.dev = proc.dev,
                   !.ret = ret, !.exit = exit]

backendState == <<initialized_, lagrange_matrix_uploaded_, upload_since_init,
                  be_last, fd_alive, fd_is_initialized_>>

\* entry of the call up to the allocation
ProcessCall(variant, o, has_backend, input_valid, in_beams, out_beams, coeffs_null) ==
    /\ ProcIdle
    /\ variant \in Variants
    /\ IF variant = "GPUProcessor"
       THEN o = 0 /\ input_valid
       ELSE o \in Objects /\ fd_alive[o] /\ has_backend
    /\ LET call == [NoProc EXCEPT !.variant = variant, !.in_beams = in_beams,
                                  !.out_beams = out_beams, !.coeffs_null = coeffs_null]
           enter == IF variant = "GPUProcessor"
                    THEN has_backend
                    ELSE fd_is_initialized_[o] /\ ValidateInput(input_valid, coeffs_null, in_beams)
       IN proc' = IF enter
                  THEN [call EXCEPT !.pc = "alloc"]
                  ELSE [NoProc EXCEPT !.pc = "done", !.variant = variant, !.exit = "rejected"]
    /\ UNCHANGED <<backendState, dev_allocated, dev_frees>>

ProcessAllocate(succeeds) ==
    /\ proc.pc = "alloc"
    /\ LET ptr == AllocateDeviceMemory(succeeds) IN
       /\ dev_allocated' = IF ptr = 0 THEN dev_allocated ELSE ptr
       /\ proc' = IF ptr = 0 THEN ProcReturn(FALSE, "alloc")
                  ELSE [proc EXCEPT !.pc = "prepare", !.dev = ptr]
    /\ UNCHANGED <<backendState, dev_frees>>

\* the host staging loop reads every input beam
ProcessPrepareHost ==
    /\ proc.pc = "prepare"
    /\ IF SomeBeamNull(proc.in_beams, proc.in_beams)
       THEN /\ dev_frees' = FreeDeviceMemory(dev_frees, proc.dev)
            /\ proc' = ProcReturn(FALSE, "input_beam")
       ELSE /\ proc' = [proc EXCEPT !.pc = "h2d"]
            /\ UNCHANGED dev_frees
    /\ UNCHANGED <<backendState, dev_allocated>>

ProcessCopyHostToDevice(succeeds) ==
    /\ proc.pc = "h2d"
    /\ IF CopyHostToDevice(proc.dev, FALSE, succeeds)
       THEN /\ proc' = [proc EXCEPT !.pc = "kernel"]
            /\ UNCHANGED dev_frees
       ELSE /\ dev_frees' = FreeDeviceMemory(dev_frees, proc.dev)
            /\ proc' = ProcReturn(FALSE, "h2d")
    /\ UNCHANGED <<backendState, dev_allocated>>

ProcessExecute(outcome) ==
    /\ proc.pc = "kernel"
    /\ IF proc.variant = "DetailedProfiling"
       THEN outcome \in ProfilingOutcomes
       ELSE outcome \in DispatchOutcomes
    /\ LET r == IF proc.variant = "DetailedProfiling"
                THEN ExecuteFractionalDelayWithProfiling(proc.dev, proc.coeffs_null, outcome)
                ELSE ExecuteFractionalDelay(proc.dev, proc.coeffs_null, outcome)
           op == IF proc.variant = "DetailedProfiling"
                 THEN "ExecuteFractionalDelayWithProfiling" ELSE "ExecuteFractionalDelay"
       IN /\ be_last' = CallRecord(op, r.ret, r.dispatched)
          /\ IF r.ret
             THEN /\ proc' = [proc EXCEPT !.pc = "d2h"]
                  /\ UNCHANGED dev_frees
             ELSE /\ dev_frees' = FreeDeviceMemory(dev_frees, proc.dev)
                  /\ proc' = ProcReturn(FALSE, "kernel")
    /\ UNCHANGED <<initialized_, lagrange_matrix_uploaded_, upload_since_init,
                   fd_alive, fd_is_initialized_, dev_allocated>>

\* mutant: the failed read-back returns without releasing the buffer
ProcessCopyDeviceToHostLeaks(succeeds) ==
    /\ proc.pc = "d2h"
    /\ proc' = IF CopyDeviceToHost(FALSE, proc.dev, succeeds)
               THEN [proc EXCEPT !.pc = IF proc.variant = "DetailedProfiling"
                                        THEN "wait" ELSE "store"]
               ELSE ProcReturn(FALSE, "d2h")
    /\ UNCHANGED <<backendState, dev_allocated, dev_frees>>

ProcessCopyDeviceToHost(succeeds) ==
    /\ proc.pc = "d2h"
    /\ IF CopyDeviceToHost(FALSE, proc.dev, succeeds)
       THEN /\ proc' = [proc EXCEPT !.pc = IF proc.variant = "DetailedProfiling"
                                           THEN "wait" ELSE "store"]
            /\ UNCHANGED dev_frees
       ELSE /\ dev_frees' = FreeDeviceMemory(dev_frees, proc.dev)
            /\ proc' = ProcReturn(FALSE, "d2h")
    /\ UNCHANGED <<backendState, dev_allocated>>

\* WithDetailedProfiling waits for the three events before copying out
ProcessWaitEvents ==
    /\ proc.pc = "wait"
    /\ proc' = [proc EXCEPT !.pc = "store"]
    /\ UNCHANGED <<backendState, dev_allocated, dev_frees>>

\* copy into the output buffer: its beam pointer may be null; the buffer is
\* released on both ways out
ProcessStoreOutput ==
    /\ proc.pc = "store"
    /\ dev_frees' = FreeDeviceMemory(dev_frees, proc.dev)
    /\ proc' = IF SomeBeamNull(proc.in_beams, proc.out_beams)
               THEN ProcReturn(FALSE, "output_beam")
               ELSE ProcReturn(TRUE, "success")
    /\ UNCHANGED <<backendState, dev_allocated>>

ProcessDone ==
    /\ proc.pc = "done"
    /\ proc' = NoProc
    /\ UNCHANGED <<backendState, dev_allocated, dev_frees>>

(***************************************************************************)
(* ExecuteFractionalDelayCPU: the five taps of one output sample           *)
(***************************************************************************)
\* buffer lengths tried: short ones, where both reflections can apply, and
\* the length of the documented example
SampleCounts == (1..MaxSamples) \cup {100}

\* the test signal: sample k of the beam holds k + 1
InputData(k) == k + 1

NoTap == [num_samples |-> 0, sample |-> 0, delay_integer |-> 0, i |-> 0,
          interp_idx |-> 0, idx |-> 0, read |-> FALSE, term |-> 0, result |-> 0,
          evaluated |-> FALSE, running |-> FALSE]

CpuInit == tap = NoTap

\* mutant: the reflection from the end is skipped after a reflection from the start
ReflectElseIf(idx, num_samples) ==
    IF idx < 0 THEN 0 - idx
    ELSE IF idx >= num_samples THEN 2 * num_samples - idx - 2
    ELSE idx

\* lines 88-93: two ifs one after the other
Reflect(idx, num_samples) ==
    LET first == IF idx < 0 THEN 0 - idx ELSE idx IN
    IF first >= num_samples THEN 2 * num_samples - first - 2 ELSE first

\* mutant: the bounds test forgets the lower bound
InRangeUpperOnly(idx, num_samples) == idx < num_samples

\* line 96: the bounds test that guards the read
InRange(idx, num_samples) == idx >= 0 /\ idx < num_samples

\* lines 61-73: a beam is taken up with its delay_integer
StartBeam(num_samples, delay_integer) ==
    /\ ~tap.running
    /\ tap' = [NoTap EXCEPT !.num_samples = num_samples, !.delay_integer = delay_integer,
                            !.interp_idx = 0 - delay_integer - 2, !.running = TRUE]

\* lines 84-101 for the current i, with coefficient 1
EvaluateTap ==
    /\ tap.running
    /\ ~tap.evaluated
    /\ LET idx == Reflect(tap.interp_idx + tap.i, tap.num_samples)
           read == InRange(idx, tap.num_samples)
           term == IF read THEN InputData(idx) ELSE 0
       IN tap' = [tap EXCEPT !.idx = idx, !.read = read, !.term = term,
                             !.result = @ + term, !.evaluated = TRUE]

\* loop headers at lines 74 and 83: next tap, next sample, or end of the beam
NextTap ==
    /\ tap.running
    /\ tap.evaluated
    /\ tap' = IF tap.i + 1 < LAGRANGE_COLS
              THEN [tap EXCEPT !.i = @ + 1, !.evaluated = FALSE]
              ELSE IF tap.sample + 1 < tap.num_samples
              THEN [tap EXCEPT !.sample = @ + 1, !.i = 0, !.result = 0, !.evaluated = FALSE,
                               !.interp_idx = tap.sample + 1 - tap.delay_integer - 2]
              ELSE [tap EXCEPT !.running = FALSE]

CpuNext ==
    \/ \E num_samples \in SampleCounts, delay_integer \in (0 - MaxDelay)..MaxDelay :
          StartBeam(num_samples, delay_integer)
    \/ EvaluateTap
    \/ NextTap

(***************************************************************************)
(* float arithmetic of the delay decomposition.  A float is the integer    *)
(* number of 2^-26 steps it is worth; every operation rounds its exact     *)
(* result to 24 significant bits, ties to even, as IEEE-754 binary32 does. *)
(***************************************************************************)
One == 2^26

Abs(x) == IF x < 0 THEN 0 - x ELSE x

RECURSIVE Log2Floor(_)
Log2Floor(x) == IF x < 2 THEN 0 ELSE 1 + Log2Floor(x \div 2)

\* the float nearest to the exact value x
RoundToFloat(x) ==
    LET a == Abs(x)
        p == Log2Floor(a)
    IN IF a = 0 \/ p < MantissaBits THEN x
       ELSE LET q == 2^(p + 1 - MantissaBits)
                lo == (a \div q) * q
                r == a - lo
                n == IF 2 * r < q THEN lo
                     ELSE IF 2 * r > q THEN lo + q
                     ELSE IF (lo \div q) % 2 = 0 THEN lo ELSE lo + q
            IN IF x < 0 THEN 0 - n ELSE n

IsFloat(x) == RoundToFloat(x) = x

\* std::floor on float: exact
FloatFloor(x) == (x \div One) * One

\* static_cast<int>(float): truncation toward zero
FloatToInt(x) == IF x >= 0 THEN x \div One ELSE 0 - ((0 - x) \div One)

\* int converted to float in a mixed expression
IntToFloat(n) == RoundToFloat(n * One)

FloatSub(a, b) == RoundToFloat(a - b)

FloatAdd(a, b) == RoundToFloat(a + b)

\* std::fmod(x, 1.0f): exact, keeps the sign of x
FloatFmodOne(x) == IF x >= 0 THEN x % One ELSE 0 - ((0 - x) % One)

\* static_cast<int>(x * LAGRANGE_ROWS) for x >= 0: the float product is rounded
\* before the truncation; it is held in steps of 2^-22 to stay within 32 bits
TimesRowsToInt(x) ==
    LET steps == One \div 16
        product == RoundToFloat(x * (LAGRANGE_ROWS \div 16))
    IN product \div steps

\* delays tried: multiples of 1/8, +-0.3f, the largest float below 1, and
\* small powers of two of either sign
Delays ==
    {d \in {j * (One \div 8) : j \in (0 - MaxEighths)..MaxEighths}
           \cup {s * 2^k : s \in {0 - 1, 1}, k \in 0..MaxTinyExp}
           \cup {20132660, 0 - 20132660, One - 4, 4 - One} : IsFloat(d)}

\* ExecuteFractionalDelayCPU lines 39-55
CpuDelayParams(delay) ==
    LET floor_int == FloatToInt(FloatFloor(delay))
        diff == FloatSub(delay, IntToFloat(floor_int))
        delay_fraction == IF diff < 0 THEN FloatAdd(diff, One) ELSE diff
        delay_integer == IF diff < 0 THEN floor_int - 1 ELSE floor_int
        row == TimesRowsToInt(delay_fraction)
    IN [delay_integer |-> delay_integer, delay_fraction |-> delay_fraction,
        lagrange_row |-> IF row >= LAGRANGE_ROWS THEN LAGRANGE_ROWS - 1 ELSE row]

\* OpenCLBackend::ExecuteFractionalDelay lines 194-206
GpuDelayParams(delay) ==
    LET floor_int == FloatToInt(FloatFloor(delay))
        diff == FloatSub(delay, IntToFloat(floor_int))
        delay_fraction == IF diff < 0 THEN FloatAdd(diff, One) ELSE diff
        delay_integer == IF diff < 0 THEN floor_int - 1 ELSE floor_int
        row == TimesRowsToInt(delay_fraction)
    IN [delay_integer |-> delay_integer, delay_fraction |-> delay_fraction,
        lagrange_row |-> IF row >= LAGRANGE_ROWS THEN LAGRANGE_ROWS - 1 ELSE row]

\* OpenCLBackend::ExecuteFractionalDelayWithProfiling lines 493-505
GpuProfilingDelayParams(delay) ==
    LET floor_int == FloatToInt(FloatFloor(delay))
        diff == FloatSub(delay, IntToFloat(floor_int))
        delay_fraction == IF diff < 0 THEN FloatAdd(diff, One) ELSE diff
        delay_integer == IF diff < 0 THEN floor_int - 1 ELSE floor_int
        row == TimesRowsToInt(delay_fraction)
    IN [delay_integer |-> delay_integer, delay_fraction |-> delay_fraction,
        lagrange_row |-> IF row >= LAGRANGE_ROWS THEN LAGRANGE_ROWS - 1 ELSE row]

\* LagrangeMatrix::GetRowIndex
GetRowIndex(delay_fraction) ==
    LET rem == FloatFmodOne(delay_fraction)
        wrapped == IF rem < 0 THEN FloatAdd(rem, One) ELSE rem
        row == TimesRowsToInt(wrapped)
    IN IF row >= LAGRANGE_ROWS THEN LAGRANGE_ROWS - 1 ELSE row

NoParams == [delay_integer |-> 0, delay_fraction |-> 0, lagrange_row |-> 0]

NoDelay == [stage |-> "none", delay |-> 0, cpu |-> NoParams, gpu |-> NoParams,
            gpu_profiling |-> NoParams, row_index |-> 0]

DelayInit == dec = NoDelay

\* a beam's delay coefficient is handed to the implementations
TakeDelay(delay) ==
    /\ dec.stage \in {"none", "done"}
    /\ dec' = [NoDelay EXCEPT !.stage = "taken", !.delay = delay]

DecomposeCpu ==
    /\ dec.stage = "taken"
    /\ dec' = [dec EXCEPT !.stage = "cpu", !.cpu = CpuDelayParams(dec.delay)]

DecomposeGpu ==
    /\ dec.stage = "cpu"
    /\ dec' = [dec EXCEPT !.stage = "gpu", !.gpu = GpuDelayParams(dec.delay)]

DecomposeGpuProfiling ==
    /\ dec.stage = "gpu"
    /\ dec' = [dec EXCEPT !.stage = "gpu_profiling",
                          !.gpu_profiling = GpuProfilingDelayParams(dec.delay)]

\* GetRowIndex applied to delay - floor(delay)
LookUpRowIndex ==
    /\ dec.stage = "gpu_profiling"
    /\ dec' = [dec EXCEPT !.stage = "done",
                          !.row_index = GetRowIndex(FloatSub(dec.delay, FloatFloor(dec.delay)))]

DelayNext ==
    \/ \E delay \in Delays : TakeDelay(delay)
    \/ DecomposeCpu
    \/ DecomposeGpu
    \/ DecomposeGpuProfiling
    \/ LookUpRowIndex

(***************************************************************************)
(* The kernel dispatch of OpenCLBackend::ExecuteFractionalDelay.  Samples  *)
(* and coefficients are integers; work-items run one at a time in any      *)
(* order, each reading its taps and then writing its element.              *)
(***************************************************************************)
\* rows of an uploaded coefficient table: the centre tap alone, and two taps
LagrangeTable == << <<0, 0, 1, 0, 0>>, <<0, 1, 1, 0, 0>> >>

KernelRows == 0..(Len(LagrangeTable) - 1)

KernelParams == [delay_integer : (0 - MaxKernelDelay)..MaxKernelDelay, lagrange_row : KernelRows]

NoKernel == [pc |-> "idle", num_beams |-> 0, num_samples |-> 0, params |-> <<>>,
             input |-> 0, output |-> 0, done |-> {}, before |-> <<>>]

\* device buffers hold up to MaxBeams * MaxKernelSamples elements, 0-based
KernelCells == 0..(MaxBeams * MaxKernelSamples - 1)

KernelInit ==
    /\ kern = NoKernel
    /\ dev_mem = [b \in BufferIds |-> [g \in KernelCells |-> 0]]

\* the body of the kernel for work-item gid: five taps read through the input
\* argument, with the reflection of the CPU path
KernelValue(input, params, num_samples, gid) ==
    LET beam_id == gid \div num_samples
        sample_id == gid % num_samples
        interp_idx == sample_id - params[beam_id + 1].delay_integer - 2
        coeff(i) == LagrangeTable[params[beam_id + 1].lagrange_row + 1][i + 1]
        term(i) == LET idx == Reflect(interp_idx + i, num_samples) IN
                   IF InRange(idx, num_samples)
                   THEN coeff(i) * input[beam_id * num_samples + idx]
                   ELSE 0
    IN term(0) + term(1) + term(2) + term(3) + term(4)

\* lines 216-240: the device buffer filled by CopyHostToDevice is passed as
\* argument 0 (input) and as argument 1 (output), and the kernel is enqueued
DispatchKernel(buffer, num_beams, num_samples, params) ==
    /\ kern.pc # "running"
    /\ dev_mem' = [dev_mem EXCEPT ![buffer] =
                      [g \in KernelCells |-> IF g < num_beams * num_samples THEN InputData(g) ELSE 0]]
    /\ kern' = [pc |-> "running", num_beams |-> num_beams, num_samples |-> num_samples,
                params |-> params, input |-> buffer, output |-> buffer, done |-> {},
                before |-> dev_mem'[buffer]]

\* one work-item runs: output[gid] = interpolation over input
WorkItem(gid) ==
    /\ kern.pc = "running"
    /\ gid < kern.num_beams * kern.num_samples
    /\ gid \notin kern.done
    /\ dev_mem' = [dev_mem EXCEPT ![kern.output][gid] =
                      KernelValue(dev_mem[kern.input], kern.params, kern.num_samples, gid)]
    /\ kern' = [kern EXCEPT !.done = @ \cup {gid}]

\* line 247: queue_.finish() returns when every work-item has run
FinishKernel ==
    /\ kern.pc = "running"
    /\ kern.done = 0..(kern.num_beams * kern.num_samples - 1)
    /\ kern' = [kern EXCEPT !.pc = "finished"]
    /\ UNCHANGED dev_mem

KernelNext ==
    \/ \E buffer \in BufferIds, num_beams \in 1..MaxBeams, num_samples \in 1..MaxKernelSamples :
          \E params \in [1..num_beams -> KernelParams] :
             DispatchKernel(buffer, num_beams, num_samples, params)
    \/ \E gid \in KernelCells : WorkItem(gid)
    \/ FinishKernel

Beams == 0..MaxBeams

GpuNext ==
    \/ \E succeeds \in BOOLEAN : BackendInitialize(succeeds)
    \/ BackendCleanup
    \/ \E data_null, succeeds \in BOOLEAN : BackendUploadLagrangeMatrix(data_null, succeeds)
    \/ \E b \in LiveBuffers \cup {0}, coeffs_null \in BOOLEAN, outcome \in DispatchOutcomes :
          BackendExecute(b, coeffs_null, outcome)
    \/ \E b \in LiveBuffers \cup {0}, coeffs_null \in BOOLEAN, outcome \in ProfilingOutcomes :
          BackendExecuteWithProfiling(b, coeffs_null, outcome)
    \/ \E succeeds \in BOOLEAN : BackendAllocate(succeeds)
    \/ \E b \in BufferIds : BackendFree(b)
    \/ \E o \in Objects, succeeds \in BOOLEAN : FractionalDelayGPUCreate(o, succeeds)
    \/ \E o \in Objects : FractionalDelayGPUDestroy(o)
    \/ \E variant \in Variants, o \in Objects \cup {0}, has_backend, input_valid, coeffs_null \in BOOLEAN,
          in_beams, out_beams \in Beams :
          ProcessCall(variant, o, has_backend, input_valid, in_beams, out_beams, coeffs_null)
    \/ \E succeeds \in BOOLEAN : ProcessAllocate(succeeds)
    \/ ProcessPrepareHost
    \/ \E succeeds \in BOOLEAN : ProcessCopyHostToDevice(succeeds)
    \/ \E outcome \in DispatchOutcomes : ProcessExecute(outcome)
    \/ \E succeeds \in BOOLEAN : ProcessCopyDeviceToHost(succeeds)
    \/ ProcessWaitEvents
    \/ ProcessStoreOutput
    \/ ProcessDone

(***************************************************************************)
(* ProcessingPipeline over the same backend                                *)
(***************************************************************************)
NoPipe == [pc |-> "idle", alive |-> TRUE, device_buffer_ |-> 0, copy_to_host |-> FALSE,
           ret |-> FALSE, exit |-> "none"]

\* ProcessingPipeline::ProcessingPipeline (lines 6-17)
PipelineInit == pipe = NoPipe

PipeReturn(ret, exit) == [pipe EXCEPT !.pc = "done", !.ret = ret, !.exit = exit]

pipeFrame == <<fd_alive, fd_is_initialized_, proc>>

\* ExecuteFull lines 23-27
PipelineExecuteFull(copy_to_host, components) ==
    /\ pipe.alive
    /\ pipe.pc = "idle"
    /\ pipe' = IF components
               THEN [pipe EXCEPT !.pc = "alloc", !.copy_to_host = copy_to_host,
                                 !.ret = FALSE, !.exit = "none"]
               ELSE [PipeReturn(FALSE, "components") EXCEPT !.copy_to_host = copy_to_host]
    /\ UNCHANGED <<backendState, dev_allocated, dev_frees, proc>>

\* ProcessingPipeline::AllocateDeviceMemory (lines 87-105), called at line 30
PipelineAllocateDeviceMemory(succeeds) ==
    /\ pipe.pc = "alloc"
    /\ IF pipe.device_buffer_ # 0
       THEN /\ pipe' = [pipe EXCEPT !.pc = "h2d"]
            /\ UNCHANGED dev_allocated
       ELSE LET ptr == AllocateDeviceMemory(succeeds) IN
            /\ dev_allocated' = IF ptr = 0 THEN dev_allocated ELSE ptr
            /\ pipe' = IF ptr = 0 THEN PipeReturn(FALSE, "alloc")
                       ELSE [pipe EXCEPT !.pc = "h2d", !.device_buffer_ = ptr]
    /\ UNCHANGED <<backendState, dev_frees, proc>>

\* ProcessingPipeline::CopyHostToDevice (lines 116-141), called at lines 36-40
PipelineCopyHostToDevice(succeeds) ==
    /\ pipe.pc = "h2d"
    /\ pipe' = IF CopyHostToDevice(pipe.device_buffer_, FALSE, succeeds)
               THEN [pipe EXCEPT !.pc = "kernel"]
               ELSE PipeReturn(FALSE, "h2d")
    /\ UNCHANGED <<backendState, dev_allocated, dev_frees, proc>>

\* lines 43-54: ExecuteFractionalDelay with a vector of zero delays
PipelineExecuteFractionalDelay(outcome) ==
    /\ pipe.pc = "kernel"
    /\ LET r == ExecuteFractionalDelay(pipe.device_buffer_, FALSE, outcome) IN
       /\ be_last' = CallRecord("ExecuteFractionalDelay", r.ret, r.dispatched)
       /\ pipe' = IF ~r.ret THEN PipeReturn(FALSE, "kernel")
                  ELSE IF pipe.copy_to_host THEN [pipe EXCEPT !.pc = "d2h"]
                  ELSE PipeReturn(TRUE, "success")
    /\ UNCHANGED <<initialized_, lagrange_matrix_uploaded_, upload_since_init,
                   dev_allocated, dev_frees, pipeFrame>>

\* ProcessingPipeline::CopyDeviceToHost (lines 143-168), called at lines 57-63
PipelineCopyDeviceToHost(succeeds) ==
    /\ pipe.pc = "d2h"
    /\ pipe' = IF CopyDeviceToHost(FALSE, pipe.device_buffer_, succeeds)
               THEN PipeReturn(TRUE, "success")
               ELSE PipeReturn(FALSE, "d2h")
    /\ UNCHANGED <<backendState, dev_allocated, dev_frees, proc>>

\* the caller has the return value
PipelineReturn ==
    /\ pipe.pc = "done"
    /\ pipe' = [pipe EXCEPT !.pc = "idle"]
    /\ UNCHANGED <<backendState, dev_allocated, dev_frees, proc>>

\* ~ProcessingPipeline and ProcessingPipeline::FreeDeviceMemory (lines 19-21, 107-114)
PipelineDestroy ==
    /\ pipe.alive
    /\ pipe.pc = "idle"
    /\ dev_frees' = FreeDeviceMemory(dev_frees, pipe.device_buffer_)
    /\ pipe' = [pipe EXCEPT !.alive = FALSE, !.device_buffer_ = 0]
    /\ UNCHANGED <<backendState, dev_allocated, proc>>

\* a new pipeline is constructed over the backend
PipelineCreate ==
    /\ ~pipe.alive
    /\ pipe' = NoPipe
    /\ UNCHANGED <<backendState, dev_allocated, dev_frees, proc>>

PipelineNext ==
    \/ /\ pipe.pc = "idle"
       /\ UNCHANGED pipe
       /\ \/ \E succeeds \in BOOLEAN : BackendInitialize(succeeds)
          \/ BackendCleanup
          \/ \E data_null, succeeds \in BOOLEAN : BackendUploadLagrangeMatrix(data_null, succeeds)
    \/ \E copy_to_host, components \in BOOLEAN : PipelineExecuteFull(copy_to_host, components)
    \/ \E succeeds \in BOOLEAN : PipelineAllocateDeviceMemory(succeeds)
    \/ \E succeeds \in BOOLEAN : PipelineCopyHostToDevice(succeeds)
    \/ \E outcome \in DispatchOutcomes : PipelineExecuteFractionalDelay(outcome)
    \/ \E succeeds \in BOOLEAN : PipelineCopyDeviceToHost(succeeds)
    \/ PipelineReturn
    \/ PipelineDestroy
    \/ PipelineCreate

(***************************************************************************)
(* The non-blocking profiled path: enqueueWriteBuffer(CL_FALSE), the       *)
(* kernel and enqueueReadBuffer(CL_FALSE) on the in-order queue_, and the  *)
(* host waiting on their events.                                           *)
(***************************************************************************)
QueueOps == {"h2d", "kernel", "d2h"}

\* FractionalDelayGPU::ProcessFractionalDelayWithDetailedProfiling lines 163-229:
\* three enqueues, three waits, three timestamp reads, copy to the output
DetailedProfilingSteps ==
    << <<"enqueue", "h2d">>, <<"enqueue", "kernel">>, <<"enqueue", "d2h">>,
       <<"wait", "h2d">>, <<"wait", "kernel">>, <<"wait", "d2h">>,
       <<"read", "h2d">>, <<"read", "kernel">>, <<"read", "d2h">>,
       <<"copy_out", "d2h">> >>

\* Application::RunGpuFractionalDelay lines 212-282: each operation is waited
\* for and read before the next one is enqueued
ApplicationSteps ==
    << <<"enqueue", "h2d">>, <<"wait", "h2d">>, <<"read", "h2d">>,
       <<"enqueue", "kernel">>, <<"wait", "kernel">>, <<"read", "kernel">>,
       <<"enqueue", "d2h">>, <<"wait", "d2h">>, <<"read", "d2h">>,
       <<"copy_out", "d2h">> >>

HostSteps(variant) ==
    IF variant = "DetailedProfiling" THEN DetailedProfilingSteps ELSE ApplicationSteps

QueueVariants == {"DetailedProfiling", "Application"}

\* signal values are 1..MaxQueueInput, 0 stands for memory nobody has written yet
QueueInputs == 1..MaxQueueInput

\* what the kernel makes of the buffer contents; unwritten memory stays unwritten
KernelEffect(v) == 0 - v

NoHost == [variant |-> "none", pc |-> 0, input |-> 0, ret |-> FALSE, returned |-> FALSE]

QueueInit ==
    /\ queue_cmds = <<>>
    /\ event_status = [op \in QueueOps |-> "none"]
    /\ host = NoHost
    /\ exec_log = <<>>
    /\ read_log = {}
    /\ dev_data = 0
    /\ out_host = 0
    /\ output_data = 0

HostRunning == host.pc \in 1..Len(HostSteps(host.variant))

HostStep == HostSteps(host.variant)[host.pc]

HostAdvance == [host EXCEPT !.pc = @ + 1]

\* a processing call starts once the commands of the previous one have drained
QueueStartCall(variant, input) ==
    /\ host.pc = 0
    /\ queue_cmds = <<>>
    /\ host' = [NoHost EXCEPT !.variant = variant, !.pc = 1, !.input = input]
    /\ event_status' = [op \in QueueOps |-> "none"]
    /\ exec_log' = <<>>
    /\ read_log' = {}
    /\ dev_data' = 0
    /\ out_host' = 0
    /\ output_data' = 0
    /\ UNCHANGED queue_cmds

\* CopyHostToDeviceWithProfiling, ExecuteFractionalDelayWithProfiling and
\* CopyDeviceToHostWithProfiling: the command goes to the end of queue_ and the
\* call returns at once; on an error the processing call returns false
QueueEnqueue(succeeds) ==
    /\ HostRunning
    /\ HostStep[1] = "enqueue"
    /\ IF succeeds
       THEN /\ queue_cmds' = Append(queue_cmds, HostStep[2])
            /\ event_status' = [event_status EXCEPT ![HostStep[2]] = "queued"]
            /\ host' = HostAdvance
       ELSE /\ host' = [host EXCEPT !.pc = 0, !.ret = FALSE, !.returned = TRUE]
            /\ UNCHANGED <<queue_cmds, event_status>>
    /\ UNCHANGED <<exec_log, read_log, dev_data, out_host, output_data>>

\* mutant: the wait returns without the event being complete
QueueWaitNoBlock ==
    /\ HostRunning
    /\ HostStep[1] = "wait"
    /\ host' = HostAdvance
    /\ UNCHANGED <<queue_cmds, event_status, exec_log, read_log, dev_data, out_host, output_data>>

\* cl::Event::wait(): returns when the command of the event has completed
QueueWait ==
    /\ HostRunning
    /\ HostStep[1] = "wait"
    /\ event_status[HostStep[2]] = "complete"
    /\ host' = HostAdvance
    /\ UNCHANGED <<queue_cmds, event_status, exec_log, read_log, dev_data, out_host, output_data>>

\* getProfilingInfo on the event of one operation
QueueReadTimestamps ==
    /\ HostRunning
    /\ HostStep[1] = "read"
    /\ read_log' = read_log \cup {[what |-> "timestamps", op |-> HostStep[2],
                                   status |-> event_status[HostStep[2]]]}
    /\ host' = HostAdvance
    /\ UNCHANGED <<queue_cmds, event_status, exec_log, dev_data, out_host, output_data>>

\* the memcpy loop from the host result vector into the output SignalBuffer
QueueCopyOut ==
    /\ HostRunning
    /\ HostStep[1] = "copy_out"
    /\ read_log' = read_log \cup {[what |-> "result", op |-> HostStep[2],
                                   status |-> event_status[HostStep[2]]]}
    /\ output_data' = out_host
    /\ host' = [host EXCEPT !.pc = 0, !.ret = TRUE, !.returned = TRUE]
    /\ UNCHANGED <<queue_cmds, event_status, exec_log, dev_data, out_host>>

\* the device starts the oldest command of the in-order queue (CL_RUNNING)
DeviceStart ==
    /\ queue_cmds # <<>>
    /\ event_status[Head(queue_cmds)] = "queued"
    /\ event_status' = [event_status EXCEPT ![Head(queue_cmds)] = "running"]
    /\ UNCHANGED <<queue_cmds, host, exec_log, read_log, dev_data, out_host, output_data>>

\* the running command has taken effect (CL_COMPLETE) and leaves the queue
DeviceComplete ==
    /\ queue_cmds # <<>>
    /\ event_status[Head(queue_cmds)] = "running"
    /\ exec_log' = Append(exec_log, Head(queue_cmds))
    /\ event_status' = [event_status EXCEPT ![Head(queue_cmds)] = "complete"]
    /\ queue_cmds' = Tail(queue_cmds)
    /\ dev_data' = IF Head(queue_cmds) = "h2d" THEN host.input
                   ELSE IF Head(queue_cmds) = "kernel" THEN KernelEffect(dev_data)
                   ELSE dev_data
    /\ out_host' = IF Head(queue_cmds) = "d2h" THEN dev_data ELSE out_host
    /\ UNCHANGED <<host, read_log, output_data>>

QueueNext ==
    \/ \E variant \in QueueVariants, input \in QueueInputs : QueueStartCall(variant, input)
    \/ \E succeeds \in BOOLEAN : QueueEnqueue(succeeds)
    \/ QueueWait
    \/ QueueReadTimestamps
    \/ QueueCopyOut
    \/ DeviceStart
    \/ DeviceComplete

(***************************************************************************)
(* SignalBuffer.  A sample is a pair <<real, imag>> of floats; the floats  *)
(* used are 0.0f, 1.0f and -2.0f, numbered 0, 1, 2.  A file is a sequence  *)
(* of bytes; a file that does not exist cannot be opened.                  *)
(***************************************************************************)
FloatIds == 0..2

\* the object representation of the three floats, least significant byte first
FloatBytes == << <<0, 0, 0, 0>>, <<0, 0, 128, 63>>, <<0, 0, 0, 192>> >>

\* the float whose four bytes were read
FloatFromBytes(bytes) == CHOOSE v \in FloatIds : FloatBytes[v + 1] = bytes

\* a uint32_t written through reinterpret_cast<const char*>
U32Bytes(n) == <<n % 256, (n \div 256) % 256, (n \div 65536) % 256, (n \div 16777216) % 256>>

U32FromBytes(bytes) == bytes[1] + 256 * bytes[2] + 65536 * bytes[3] + 16777216 * bytes[4]

ZeroSample == <<0, 0>>

\* SignalBuffer::SignalBuffer() (lines 8-10)
EmptyBuffer == [num_beams_ |-> 0, num_samples_ |-> 0, beams_ |-> <<>>]

\* SignalBuffer::Resize (lines 118-126); SignalBuffer(num_beams, num_samples) calls it
Resize(num_beams, num_samples) ==
    [num_beams_ |-> num_beams, num_samples_ |-> num_samples,
     beams_ |-> [k \in 1..num_beams |-> [n \in 1..num_samples |-> ZeroSample]]]

\* SignalBuffer::Clear (lines 128-132)
Clear(s) ==
    [s EXCEPT !.beams_ = [k \in 1..Len(s.beams_) |-> [n \in 1..Len(s.beams_[k]) |-> ZeroSample]]]

\* a caller writes a signal through GetBeamData(beam): every beam the buffer
\* answers for is written over its num_samples_ samples
WriteSignal(s, pattern) ==
    [s EXCEPT !.beams_ = [k \in 1..Len(s.beams_) |->
        [n \in 1..Len(s.beams_[k]) |-> <<(pattern + k + n) % 3, (pattern * n + k) % 3>>]]]

\* SignalBuffer::IsValid (lines 134-154)
IsValid(s) ==
    /\ ~(s.num_beams_ = 0 \/ s.num_beams_ > MaxValidBeams)
    /\ ~(s.num_samples_ < MinValidSamples \/ s.num_samples_ > MaxValidSamples)
    /\ Len(s.beams_) = s.num_beams_
    /\ \A k \in 1..Len(s.beams_) : Len(s.beams_[k]) = s.num_samples_

\* mutant: the imaginary part is written from the real part
DataBytesRealTwice(s) ==
    [i \in 1..(s.num_beams_ * s.num_samples_ * 8) |->
        LET word == (i - 1) \div 4
            beam == word \div (2 * s.num_samples_)
            sample == (word % (2 * s.num_samples_)) \div 2
        IN FloatBytes[s.beams_[beam + 1][sample + 1][1] + 1][((i - 1) % 4) + 1]]

\* SaveToFile lines 89-96: real then imag of every sample, beam by beam
DataBytes(s) ==
    [i \in 1..(s.num_beams_ * s.num_samples_ * 8) |->
        LET word == (i - 1) \div 4
            beam == word \div (2 * s.num_samples_)
            sample == (word % (2 * s.num_samples_)) \div 2
            part == word % 2
        IN FloatBytes[s.beams_[beam + 1][sample + 1][part + 1] + 1][((i - 1) % 4) + 1]]

\* SaveToFile lines 83-96: what a valid buffer leaves in the file
FileImage(s) == U32Bytes(s.num_beams_) \o U32Bytes(s.num_samples_) \o DataBytes(s)

\* four bytes of the file starting after offset, as file.read delivers them
ReadWord(f, offset) == SubSeq(f, offset + 1, offset + 4)

\* LoadFromFile lines 51-64: the samples read before the stream fails are stored,
\* the others keep the zeros of Resize
LoadedBeams(f, num_beams, num_samples) ==
    LET floats == (Len(f) - 8) \div 4
    IN [k \in 1..num_beams |-> [n \in 1..num_samples |->
          LET first == 2 * ((k - 1) * num_samples + (n - 1))
          IN IF first + 2 <= floats
             THEN <<FloatFromBytes(ReadWord(f, 8 + 4 * first)),
                    FloatFromBytes(ReadWord(f, 12 + 4 * first))>>
             ELSE ZeroSample]]

\* SignalBuffer::LoadFromFile (lines 17-68): the buffer afterwards and the result
LoadFromFile(s, f) ==
    IF ~f.exists THEN [buffer |-> s, ret |-> FALSE]
    ELSE IF Len(f.bytes) < 8 THEN [buffer |-> s, ret |-> FALSE]
    ELSE LET num_beams == U32FromBytes(ReadWord(f.bytes, 0))
             num_samples == U32FromBytes(ReadWord(f.bytes, 4))
             assigned == [s EXCEPT !.num_beams_ = num_beams, !.num_samples_ = num_samples]
         IN IF num_beams = 0 \/ num_beams > MaxValidBeams
            THEN [buffer |-> assigned, ret |-> FALSE]
            ELSE IF num_samples < MinValidSamples \/ num_samples > MaxValidSamples
            THEN [buffer |-> assigned, ret |-> FALSE]
            ELSE [buffer |-> [Resize(num_beams, num_samples) EXCEPT
                                 !.beams_ = LoadedBeams(f.bytes, num_beams, num_samples)],
                  ret |-> Len(f.bytes) >= 8 + 8 * num_beams * num_samples]

NoFile == [exists |-> FALSE, bytes |-> <<>>]

NoSave == [fresh |-> FALSE, buffer |-> EmptyBuffer]

NoIo == [op |-> "none", ret |-> FALSE, valid |-> FALSE]

SbInit ==
    /\ sb = EmptyBuffer
    /\ file = NoFile
    /\ io_last = NoIo
    /\ saved = NoSave

BeamCounts == 0..MaxSbBeams

SbSampleCounts == {MinValidSamples - 1} \cup (MinValidSamples..(MinValidSamples + MaxExtraSamples))

\* a SignalBuffer is constructed in place of the one before
SbConstruct ==
    /\ sb' = EmptyBuffer
    /\ io_last' = NoIo
    /\ UNCHANGED <<file, saved>>

SbResize(num_beams, num_samples) ==
    /\ sb' = Resize(num_beams, num_samples)
    /\ io_last' = NoIo
    /\ UNCHANGED <<file, saved>>

SbClear ==
    /\ sb' = Clear(sb)
    /\ io_last' = NoIo
    /\ UNCHANGED <<file, saved>>

SbWriteSignal(pattern) ==
    /\ sb.beams_ # <<>>
    /\ sb' = WriteSignal(sb, pattern)
    /\ io_last' = NoIo
    /\ UNCHANGED <<file, saved>>

\* SignalBuffer::SaveToFile (lines 70-100)
SbSaveToFile ==
    /\ io_last' = [op |-> "save", ret |-> IsValid(sb), valid |-> IsValid(sb)]
    /\ IF IsValid(sb)
       THEN file' = [exists |-> TRUE, bytes |-> FileImage(sb)] /\ saved' = [fresh |-> TRUE, buffer |-> sb]
       ELSE UNCHANGED <<file, saved>>
    /\ UNCHANGED sb

SbLoadFromFile ==
    /\ LET r == LoadFromFile(sb, file) IN
       /\ sb' = r.buffer
       /\ io_last' = [op |-> "load", ret |-> r.ret, valid |-> FALSE]
    /\ UNCHANGED <<file, saved>>

\* some other program leaves a file: a header and length bytes of zero data
ExternalFile(num_beams, num_samples, length) ==
    /\ file' = [exists |-> TRUE,
                bytes |-> U32Bytes(num_beams) \o U32Bytes(num_samples) \o [i \in 1..length |-> 0]]
    /\ saved' = NoSave
    /\ io_last' = NoIo
    /\ UNCHANGED sb

\* the file is cut short
TruncateFile(length) ==
    /\ file.exists
    /\ length < Len(file.bytes)
    /\ file' = [file EXCEPT !.bytes = SubSeq(file.bytes, 1, length)]
    /\ saved' = NoSave
    /\ io_last' = NoIo
    /\ UNCHANGED sb

RemoveFile ==
    /\ file.exists
    /\ file' = NoFile
    /\ saved' = NoSave
    /\ io_last' = NoIo
    /\ UNCHANGED sb

SbNext ==
    \/ SbConstruct
    \/ \E num_beams \in BeamCounts, num_samples \in SbSampleCounts : SbResize(num_beams, num_samples)
    \/ SbClear
    \/ \E pattern \in 1..MaxPattern : SbWriteSignal(pattern)
    \/ SbSaveToFile
    \/ SbLoadFromFile
    \/ \E num_beams \in {0, 1, MaxValidBeams + 1}, num_samples \in {MinValidSamples - 1, MinValidSamples},
          length \in {0, 8 * MinValidSamples} : ExternalFile(num_beams, num_samples, length)
    \/ \E length \in {4, 8, 12, 8 * MinValidSamples} : TruncateFile(length)
    \/ RemoveFile

(***************************************************************************)
(* CompareResults, Validator::Validate and Application::CompareAndReport   *)
(* over two SignalBuffers.  Sample values are the floats 0.0, 1.0 and -2.0 *)
(* and tolerances are whole numbers, so every difference below is exact;   *)
(* the magnitude of a difference is kept as its square.                    *)
(***************************************************************************)
FloatValue(id) == <<0, 1, 0 - 2>>[id + 1]

\* SignalBuffer::GetBeamData(beam)[sample]; past the end of the storage the
\* read yields whatever lies there
SampleAt(s, beam, sample) ==
    IF beam <= Len(s.beams_) /\ sample <= Len(s.beams_[beam])
    THEN <<FloatValue(s.beams_[beam][sample][1]), FloatValue(s.beams_[beam][sample][2])>>
    ELSE <<0, 0>>

\* mutant: only the beam counts are compared
ShapesDifferBeamsOnly(cpu, gpu) == cpu.num_beams_ # gpu.num_beams_

\* result_comparator.cpp lines 17-18, validator.cpp line 8
ShapesDiffer(cpu, gpu) ==
    cpu.num_beams_ # gpu.num_beams_ \/ cpu.num_samples_ # gpu.num_samples_

\* mutant: points above the tolerance fail the comparison
ComparisonResultStrict(errors_count) == errors_count = 0

\* line 103: the result once the loop has run
ComparisonResult(errors_count) == TRUE

MaxOf(S) == IF S = {} THEN 0 ELSE CHOOSE m \in S : \A x \in S : x <= m

NoMetrics ==
    [filled |-> FALSE, max_diff_real |-> 0, max_diff_imag |-> 0, max_diff_magnitude_sq |-> 0,
     errors_above_tolerance |-> 0, total_points |-> 0]

\* lines 28-101: the loop over all points and the metrics it leaves
ComputeMetrics(cpu, gpu, tolerance) ==
    LET points == (1..cpu.num_beams_) \X (1..cpu.num_samples_)
        diff_real(p) == Abs(SampleAt(cpu, p[1], p[2])[1] - SampleAt(gpu, p[1], p[2])[1])
        diff_imag(p) == Abs(SampleAt(cpu, p[1], p[2])[2] - SampleAt(gpu, p[1], p[2])[2])
        diff_magnitude_sq(p) == diff_real(p) * diff_real(p) + diff_imag(p) * diff_imag(p)
    IN [filled |-> TRUE,
        max_diff_real |-> MaxOf({diff_real(p) : p \in points}),
        max_diff_imag |-> MaxOf({diff_imag(p) : p \in points}),
        max_diff_magnitude_sq |-> MaxOf({diff_magnitude_sq(p) : p \in points}),
        errors_above_tolerance |-> Cardinality({p \in points : diff_magnitude_sq(p) > tolerance * tolerance}),
        total_points |-> cpu.num_beams_ * cpu.num_samples_]

\* CompareResults (lines 6-104) for two non-null buffers: result, the metrics
\* written through a non-null metrics pointer, and the number of samples read
CompareResults(cpu, gpu, tolerance) ==
    IF ShapesDiffer(cpu, gpu)
    THEN [ret |-> FALSE, metrics |-> NoMetrics, samples_read |-> 0]
    ELSE IF ~IsValid(cpu) \/ ~IsValid(gpu)
    THEN [ret |-> FALSE, metrics |-> NoMetrics, samples_read |-> 0]
    ELSE LET m == ComputeMetrics(cpu, gpu, tolerance)
         IN [ret |-> ComparisonResult(m.errors_above_tolerance), metrics |-> m,
             samples_read |-> 2 * m.total_points]

\* Validator::Validate (validator.cpp lines 7-19)
Validate(cpu, gpu, tolerance) ==
    IF cpu.num_beams_ # gpu.num_beams_ \/ cpu.num_samples_ # gpu.num_samples_
    THEN [ret |-> FALSE, metrics |-> NoMetrics, samples_read |-> 0]
    ELSE LET r == CompareResults(cpu, gpu, tolerance)
         IN IF ~r.ret THEN [r EXCEPT !.ret = FALSE] ELSE [r EXCEPT !.ret = TRUE]

\* Application::CompareAndReport (application.cpp lines 312-339)
CompareAndReport(cpu, gpu, tolerance) ==
    LET r == Validate(cpu, gpu, tolerance)
    IN IF ~r.ret THEN [r EXCEPT !.ret = FALSE] ELSE [r EXCEPT !.ret = TRUE]

NoCmp == [op |-> "none", tolerance |-> 0, ret |-> FALSE, metrics |-> NoMetrics, samples_read |-> 0]

CmpInit ==
    /\ cpu_results = EmptyBuffer
    /\ gpu_results = EmptyBuffer
    /\ cmp = NoCmp

CmpBeamCounts == 1..MaxSbBeams

CmpSampleCounts == (MinValidSamples - 1)..(MinValidSamples + MaxCmpExtra)

Tolerances == 0..MaxTolerance

\* the CPU run leaves its result, the reference signal
SetCpuResults(num_beams, num_samples) ==
    /\ cpu_results' = WriteSignal(Resize(num_beams, num_samples), 0)
    /\ cmp' = NoCmp
    /\ UNCHANGED gpu_results

\* the GPU run leaves its result
SetGpuResults(num_beams, num_samples, pattern) ==
    /\ gpu_results' = WriteSignal(Resize(num_beams, num_samples), pattern)
    /\ cmp' = NoCmp
    /\ UNCHANGED cpu_results

CallCompareResults(tolerance) ==
    /\ LET r == CompareResults(cpu_results, gpu_results, tolerance) IN
       cmp' = [op |-> "CompareResults", tolerance |-> tolerance, ret |-> r.ret,
               metrics |-> r.metrics, samples_read |-> r.samples_read]
    /\ UNCHANGED <<cpu_results, gpu_results>>

CallValidate(tolerance) ==
    /\ LET r == Validate(cpu_results, gpu_results, tolerance) IN
       cmp' = [op |-> "Validate", tolerance |-> tolerance, ret |-> r.ret,
               metrics |-> r.metrics, samples_read |-> r.samples_read]
    /\ UNCHANGED <<cpu_results, gpu_results>>

CallCompareAndReport(tolerance) ==
    /\ LET r == CompareAndReport(cpu_results, gpu_results, tolerance) IN
       cmp' = [op |-> "CompareAndReport", tolerance |-> tolerance, ret |-> r.ret,
               metrics |-> r.metrics, samples_read |-> r.samples_read]
    /\ UNCHANGED <<cpu_results, gpu_results>>

CmpNext ==
    \/ \E num_beams \in CmpBeamCounts, num_samples \in CmpSampleCounts :
          SetCpuResults(num_beams, num_samples)
    \/ \E num_beams \in CmpBeamCounts, num_samples \in CmpSampleCounts, pattern \in 0..MaxPattern :
          SetGpuResults(num_beams, num_samples, pattern)
    \/ \E tolerance \in Tolerances : CallCompareResults(tolerance)
    \/ \E tolerance \in Tolerances : CallValidate(tolerance)
    \/ \E tolerance \in Tolerances : CallCompareAndReport(tolerance)

(***************************************************************************)
(* ProfilingEngine.  A time in milliseconds is a double; the doubles that  *)
(* occur lie below 1 and are whole multiples of 2^-56, so a time is kept   *)
(* as that multiple, split in two limbs <<hi, lo>> of 28 bits.  A double   *)
(* has 53 significant bits: from 2^53 units on only every second, fourth   *)
(* or eighth multiple is a double.                                         *)
(***************************************************************************)
Limb == 2^28

BigZero == <<0, 0>>

BigAdd(a, b) == <<a[1] + b[1] + ((a[2] + b[2]) \div Limb), (a[2] + b[2]) % Limb>>

BigLess(a, b) == a[1] < b[1] \/ (a[1] = b[1] /\ a[2] < b[2])

BigLeq(a, b) == ~BigLess(b, a)

\* distance between neighbouring doubles at a magnitude given by the high limb
Ulp(hi) == IF hi < 2^25 THEN 1 ELSE IF hi < 2^26 THEN 2 ELSE IF hi < 2^27 THEN 4 ELSE 8

\* the double nearest to an exact value, ties to even
RoundToDouble(v) ==
    LET g == Ulp(v[1])
        rem == v[2] % g
        down == v[2] - rem
        up == 2 * rem > g \/ (2 * rem = g /\ (down \div g) % 2 = 1)
    IN IF up THEN BigAdd(<<v[1], down>>, <<0, g>>) ELSE <<v[1], down>>

\* a + b in double arithmetic
DoubleAdd(a, b) == RoundToDouble(BigAdd(a, b))

\* v / n in double arithmetic, for a count n and a quotient of at least 2^52 units (or zero)
DoubleDiv(v, n) ==
    LET rest == (v[1] % n) * Limb + v[2]
        q == <<v[1] \div n, rest \div n>>
        r == rest % n
        g == Ulp(q[1])
        s == q[2] % g
        down == q[2] - s
        up == 2 * (s * n + r) > g * n \/ (2 * (s * n + r) = g * n /\ (down \div g) % 2 = 1)
    IN IF up THEN BigAdd(<<q[1], down>>, <<0, g>>) ELSE <<q[1], down>>

\* microseconds a timer can measure
Durations == {70, 100}

\* static_cast<double>(duration) / 1000.0 (line 35): the double nearest to d / 1000
MsOfMicros(d) ==
    CASE d = 70 -> <<18790481, 246960620>>
      [] d = 100 -> <<26843545, 161061274>>

\* times handed to RecordGpuEvent
GpuTimes == {MsOfMicros(d) : d \in Durations}

TimerNames == {"h2d", "kernel"}

\* TimingMetric() (profiling_engine.h lines 31-32); present: the map holds the name
NoTiming ==
    [present |-> FALSE, time_ms |-> BigZero, call_count |-> 0,
     min_time_ms |-> BigZero, max_time_ms |-> BigZero, avg_time_ms |-> BigZero]

\* std::min(a, b), std::max(a, b)
StdMin(a, b) == IF BigLess(b, a) THEN b ELSE a

StdMax(a, b) == IF BigLess(a, b) THEN b ELSE a

\* UpdateMetricStats (lines 148-164): the entry of name afterwards
UpdatedMetric(metric, time_ms) ==
    LET sum == DoubleAdd(metric.time_ms, time_ms)
        count == metric.call_count + 1
    IN [present |-> TRUE,
        time_ms |-> sum,
        call_count |-> count,
        min_time_ms |-> IF count = 1 THEN time_ms ELSE StdMin(metric.min_time_ms, time_ms),
        max_time_ms |-> IF count = 1 THEN time_ms ELSE StdMax(metric.max_time_ms, time_ms),
        avg_time_ms |-> DoubleDiv(sum, count)]

UpdateMetricStats(name, time_ms) ==
    /\ metrics_' = [metrics_ EXCEPT ![name] = UpdatedMetric(metrics_[name], time_ms)]
    /\ total_time_ms' = DoubleAdd(total_time_ms, time_ms)
    /\ measured' = [measured EXCEPT ![name] = Append(measured[name], time_ms)]

\* mutant: StopTimer does not look for the timer
TimerRunningAlways(name) == TRUE

\* lines 24-25: start_times_.find(name) != start_times_.end()
TimerRunning(name) == name \in start_times_

NoProfCall == [op |-> "none", name |-> "none", running |-> FALSE]

ProfInit ==
    /\ metrics_ = [n \in TimerNames |-> NoTiming]
    /\ total_time_ms = BigZero
    /\ start_times_ = {}
    /\ profiling_enabled_ = TRUE
    /\ measured = [n \in TimerNames |-> <<>>]
    /\ prof_last = NoProfCall

\* measurements recorded since the last Reset
MeasurementCount == Len(measured["h2d"]) + Len(measured["kernel"])

\* ProfilingEngine::StartTimer (lines 11-17)
StartTimer(name) ==
    /\ prof_last' = [op |-> "StartTimer", name |-> name, running |-> name \in start_times_]
    /\ IF ~profiling_enabled_
       THEN UNCHANGED start_times_
       ELSE start_times_' = start_times_ \cup {name}
    /\ UNCHANGED <<metrics_, total_time_ms, profiling_enabled_, measured>>

\* ProfilingEngine::StopTimer (lines 19-39); duration: what the clock gives
StopTimer(name, duration) ==
    /\ prof_last' = [op |-> "StopTimer", name |-> name, running |-> name \in start_times_]
    /\ IF ~profiling_enabled_
       THEN UNCHANGED <<metrics_, total_time_ms, start_times_, measured>>
       ELSE IF ~TimerRunning(name)
       THEN UNCHANGED <<metrics_, total_time_ms, start_times_, measured>>
       ELSE /\ MeasurementCount < MaxMeasurements
            /\ UpdateMetricStats(name, MsOfMicros(duration))
            /\ start_times_' = start_times_ \ {name}
    /\ UNCHANGED profiling_enabled_

\* ProfilingEngine::RecordGpuEvent (lines 41-47)
RecordGpuEvent(event_name, time_ms) ==
    /\ prof_last' = [op |-> "RecordGpuEvent", name |-> event_name, running |-> event_name \in start_times_]
    /\ IF ~profiling_enabled_
       THEN UNCHANGED <<metrics_, total_time_ms, measured>>
       ELSE /\ MeasurementCount < MaxMeasurements
            /\ UpdateMetricStats(event_name, time_ms)
    /\ UNCHANGED <<start_times_, profiling_enabled_>>

\* ProfilingEngine::Reset (lines 142-146)
ProfReset ==
    /\ metrics_' = [n \in TimerNames |-> NoTiming]
    /\ total_time_ms' = BigZero
    /\ start_times_' = {}
    /\ measured' = [n \in TimerNames |-> <<>>]
    /\ prof_last' = [op |-> "Reset", name |-> "none", running |-> FALSE]
    /\ UNCHANGED profiling_enabled_

\* ProfilingEngine::EnableProfiling (profiling_engine.h line 116)
EnableProfiling(enable) ==
    /\ profiling_enabled_' = enable
    /\ prof_last' = [op |-> "EnableProfiling", name |-> "none", running |-> FALSE]
    /\ UNCHANGED <<metrics_, total_time_ms, start_times_, measured>>

ProfNext ==
    \/ \E name \in TimerNames : StartTimer(name)
    \/ \E name \in TimerNames, duration \in Durations : StopTimer(name, duration)
    \/ \E name \in TimerNames, time_ms \in GpuTimes : RecordGpuEvent(name, time_ms)
    \/ ProfReset
    \/ \E enable \in BOOLEAN : EnableProfiling(enable)

(***************************************************************************)
(* LagrangeMatrix::GetRowIndex on its own, for arguments next to the row   *)
(* boundaries k/48.  Floats are multiples of 2^-26 as above, which covers  *)
(* every float from 1/8 on.                                                *)
(***************************************************************************)
\* spacing of the floats at x > 0
FloatUlp(x) == IF Log2Floor(x) < MantissaBits THEN 1 ELSE 2^(Log2Floor(x) + 1 - MantissaBits)

\* the largest float that is at most k / LAGRANGE_ROWS
FloatAtOrBelowBoundary(k) ==
    LET exact == (k * (One \div 16)) \div (LAGRANGE_ROWS \div 16)
    IN (exact \div FloatUlp(exact)) * FloatUlp(exact)

\* the floats around each boundary k/48 from 1/8 on: two below or at it, one above
BoundaryFloats ==
    UNION {{FloatAtOrBelowBoundary(k) - FloatUlp(FloatAtOrBelowBoundary(k) - 1),
            FloatAtOrBelowBoundary(k),
            FloatAtOrBelowBoundary(k) + FloatUlp(FloatAtOrBelowBoundary(k))} :
                k \in (LAGRANGE_ROWS \div 8)..(LAGRANGE_ROWS - 1)}

\* arguments tried: multiples of 1/8 from -1 to 2, the floats around the
\* boundaries, the largest float below 1 and the smallest negative floats held
RowArguments ==
    {f \in {j * (One \div 8) : j \in (0 - 8)..16} \cup BoundaryFloats \cup {One - 4, 0 - 1, 0 - 2} :
        IsFloat(f)}

NoRowCall == [called |-> FALSE, delay_fraction |-> 0, row |-> 0]

RowInit == row_call = NoRowCall

\* LagrangeMatrix::GetRowIndex (lagrange_matrix.cpp lines 117-126)
CallGetRowIndex(delay_fraction) ==
    row_call' = [called |-> TRUE, delay_fraction |-> delay_fraction, row |-> GetRowIndex(delay_fraction)]

RowNext == \E delay_fraction \in RowArguments : CallGetRowIndex(delay_fraction)

(***************************************************************************)
(* ExecuteFractionalDelayCPU as a whole, for one beam: the delay is split  *)
(* as in lines 39-55, every output sample is computed from the input into  *)
(* a temporary buffer and the buffer is copied back.  Sample values are    *)
(* whole numbers, and the coefficients 0 and 1, so the sums are exact; a   *)
(* sample stands for either component of a complex value.                  *)
(***************************************************************************)
\* rows of the coefficient table passed in: row 0 holds the centre tap alone
CpuCoefficient(row, col) ==
    IF row = 0 THEN <<0, 0, 1, 0, 0>>[col + 1] ELSE <<0, 1, 1, 0, 0>>[col + 1]

\* mutant: the delay is added
InterpIdxAdvanced(sample, delay_integer) == sample + delay_integer - 2

\* line 76
InterpIdx(sample, delay_integer) == sample - delay_integer - 2

\* lines 73-110: the value stored for one output sample
CpuSampleResult(input, num_samples, delay_integer, lagrange_row, sample) ==
    LET interp_idx == InterpIdx(sample, delay_integer)
        term(i) == LET idx == Reflect(interp_idx + i, num_samples) IN
                   IF InRange(idx, num_samples)
                   THEN CpuCoefficient(lagrange_row, i) * input[idx + 1]
                   ELSE 0
    IN term(0) + term(1) + term(2) + term(3) + term(4)

\* lines 57-125: the beam after the call
CpuOutput(input, delay) ==
    LET params == CpuDelayParams(delay)
        num_samples == Len(input)
    IN [n \in 1..num_samples |->
          CpuSampleResult(input, num_samples, params.delay_integer, params.lagrange_row, n - 1)]

SampleValues == {0 - 1, 0, 2}

CpuRunInputs == UNION {[1..n -> SampleValues] : n \in 1..MaxRunSamples}

\* whole delays and delays halfway between them
CpuRunDelays == {j * (One \div 2) : j \in (0 - 2 * MaxRunSamples)..(2 * MaxRunSamples)}

NoCpuRun == [called |-> FALSE, delay |-> 0, input |-> <<>>, output |-> <<>>]

CpuRunInit == cpu_run = NoCpuRun

\* the caller fills the buffer with a signal
LoadSignal(input) ==
    cpu_run' = [called |-> FALSE, delay |-> 0, input |-> input, output |-> input]

\* ExecuteFractionalDelayCPU (lines 7-128) on the buffer as filled; output is
\* the buffer after the call
CallExecuteFractionalDelayCPU(delay) ==
    /\ ~cpu_run.called
    /\ cpu_run.input # <<>>
    /\ cpu_run' = [cpu_run EXCEPT !.called = TRUE, !.delay = delay,
                                  !.output = CpuOutput(cpu_run.input, delay)]

CpuRunNext ==
    \/ \E input \in CpuRunInputs : LoadSignal(input)
    \/ \E delay \in CpuRunDelays : CallExecuteFractionalDelayCPU(delay)

(***************************************************************************)
(* LagrangeMatrix::LoadFromJson and ParseJson.  The text of a file is a    *)
(* sequence of characters; positions count from 0 as in the code, and -1   *)
(* stands for std::string::npos.                                           *)
(***************************************************************************)
npos == 0 - 1

\* json_content.find(ch, pos)
RECURSIVE Find(_, _, _)
Find(s, ch, pos) ==
    IF pos >= Len(s) THEN npos
    ELSE IF s[pos + 1] = ch THEN pos
    ELSE Find(s, ch, pos + 1)

\* lines 55-59: blanks and commas are skipped
RECURSIVE SkipSeparators(_, _)
SkipSeparators(s, pos) ==
    IF pos < Len(s) /\ s[pos + 1] \in {" ", "\n", "\t", ","} THEN SkipSeparators(s, pos + 1) ELSE pos

Digits == <<"0", "1", "2", "3", "4", "5", "6", "7", "8", "9">>

NumberChars == {Digits[i] : i \in 1..Len(Digits)} \cup {".", "-", "+", "e", "E"}

\* lines 67-74: the end of the run of number characters
RECURSIVE NumEnd(_, _)
NumEnd(s, pos) ==
    IF pos < Len(s) /\ s[pos + 1] \in NumberChars THEN NumEnd(s, pos + 1) ELSE pos

DigitValue(ch) == (CHOOSE i \in 1..Len(Digits) : Digits[i] = ch) - 1

\* std::stof of a run of decimal digits
RECURSIVE Stof(_)
Stof(num_str) ==
    IF num_str = <<>> THEN 0
    ELSE 10 * Stof(SubSeq(num_str, 1, Len(num_str) - 1)) + DigitValue(num_str[Len(num_str)])

\* lines 53-87: the values of one row; ok is false where the code returns false
RECURSIVE ReadRowValues(_, _, _, _)
ReadRowValues(s, pos, col, matrix) ==
    IF col >= COLS THEN [ok |-> TRUE, pos |-> pos, matrix |-> matrix]
    ELSE LET start == SkipSeparators(s, pos)
             num_end == NumEnd(s, start)
         IN IF start >= Len(s) THEN [ok |-> FALSE, pos |-> start, matrix |-> matrix]
            ELSE IF num_end = start THEN [ok |-> FALSE, pos |-> start, matrix |-> matrix]
            ELSE ReadRowValues(s, num_end, col + 1,
                               Append(matrix, Stof(SubSeq(s, start + 1, num_end))))

\* lines 100-106
SizeCheck(matrix) == [ret |-> Len(matrix) = ROWS * COLS, matrix |-> matrix]

\* lines 44-98: the loop over the rows
RECURSIVE ReadRows(_, _, _, _)
ReadRows(s, pos, row, matrix) ==
    IF ~(row < ROWS /\ pos < Len(s)) THEN SizeCheck(matrix)
    ELSE LET open == Find(s, "[", pos) IN
         IF open = npos THEN SizeCheck(matrix)
         ELSE LET values == ReadRowValues(s, open + 1, 0, matrix) IN
              IF ~values.ok THEN [ret |-> FALSE, matrix |-> values.matrix]
              ELSE LET close == Find(s, "]", values.pos) IN
                   IF close = npos THEN [ret |-> FALSE, matrix |-> values.matrix]
                   ELSE ReadRows(s, close + 1, row + 1, values.matrix)

\* LagrangeMatrix::ParseJson (lines 26-107): the result and matrix_ afterwards
ParseJson(json_content) ==
    LET open == Find(json_content, "[", 0) IN
    IF open = npos THEN [ret |-> FALSE, matrix |-> <<>>]
    ELSE ReadRows(json_content, open + 1, 0, <<>>)

\* LagrangeMatrix::IsValid (lagrange_matrix.h line 55)
LagrangeIsValid(matrix) == Len(matrix) = ROWS * COLS

\* the text of a row of the file: values separated by ", " between brackets
RECURSIVE RowValuesText(_, _)
RowValuesText(count, digit) ==
    IF count = 0 THEN <<>>
    ELSE IF count = 1 THEN <<Digits[digit + 1]>>
    ELSE RowValuesText(count - 1, digit) \o <<",", " ", Digits[digit + 1]>>

RowText(count, digit, closed) ==
    <<"[">> \o RowValuesText(count, digit) \o (IF closed THEN <<"]">> ELSE <<>>)

\* a file of num_rows rows of COLS values each, except that row odd_row has
\* odd_count values; the last row may lack its closing bracket
RECURSIVE RowsText(_, _, _)
RowsText(f, row, upto) ==
    IF row > upto THEN <<>>
    ELSE (IF row > 1 THEN <<",", "\n">> ELSE <<>>)
         \o RowText(IF row = f.odd_row THEN f.odd_count ELSE COLS, f.digit,
                    row < f.num_rows \/ f.closed)
         \o RowsText(f, row + 1, upto)

JsonText(f) == <<"[">> \o RowsText(f, 1, f.num_rows) \o <<"]">>

NoJsonFile == [exists |-> FALSE, num_rows |-> 0, odd_row |-> 0, odd_count |-> 0, digit |-> 0, closed |-> TRUE]

JsonFiles ==
    [exists : {TRUE}, num_rows : (ROWS - 1)..(ROWS + MaxExtraRows), odd_row : {1, ROWS},
     odd_count : (COLS - 1)..(COLS + 1), digit : 1..MaxDigit, closed : BOOLEAN]

NoLoad == [op |-> "none", ret |-> FALSE]

\* LagrangeMatrix::LagrangeMatrix (lines 8-10)
NewMatrix == [i \in 1..(ROWS * COLS) |-> 0]

LmInit ==
    /\ matrix_ = NewMatrix
    /\ json_file = NoJsonFile
    /\ lm_last = NoLoad

\* a LagrangeMatrix is constructed in place of the one before
ConstructMatrix ==
    /\ matrix_' = NewMatrix
    /\ lm_last' = NoLoad
    /\ UNCHANGED json_file

\* the file is written, or removed, by somebody else
WriteJsonFile(f) ==
    /\ json_file' = f
    /\ UNCHANGED <<matrix_, lm_last>>

\* LagrangeMatrix::LoadFromJson (lines 12-24)
LoadFromJson ==
    /\ IF ~json_file.exists
       THEN /\ lm_last' = [op |-> "LoadFromJson", ret |-> FALSE]
            /\ UNCHANGED matrix_
       ELSE LET r == ParseJson(JsonText(json_file)) IN
            /\ lm_last' = [op |-> "LoadFromJson", ret |-> r.ret]
            /\ matrix_' = r.matrix
    /\ UNCHANGED json_file

LmNext ==
    \/ ConstructMatrix
    \/ \E f \in JsonFiles \cup {NoJsonFile} : WriteJsonFile(f)
    \/ LoadFromJson

(***************************************************************************)
(* OpenCLManager::Cleanup (opencl_manager.cpp lines 266-270) and the       *)
(* objects that store the result of GetOrCompileProgram in program_        *)
(* (GeneratorGPU::CompileKernels).                                         *)
(***************************************************************************)
UseInit ==
    /\ cleaned_up = FALSE
    /\ held = {}

\* Cleanup(): GetInstance() is bound to a reference and nothing else is done
Cleanup(t) ==
    /\ Alive
    /\ AllIdle
    /\ cleaned_up' = TRUE
    /\ UNCHANGED <<mgrVars, held>>

\* the programs GetOrCompileProgram returns in this step (lines 185 and 198)
ReturnedPrograms ==
    {CacheFind(program_cache_, mgr_local[t].hash) :
        t \in {u \in Threads : mgr_pc[u] = "gocp_lookup" /\ mgr_pc'[u] = "idle"}}
    \cup {mgr_local[t].program :
        t \in {u \in Threads : mgr_pc[u] = "gocp_insert" /\ mgr_pc'[u] = "idle"}}

\* a manager call or one of its steps; the caller of GetOrCompileProgram stores
\* the returned program: program_ = manager_.GetOrCompileProgram(source)
ManagerCall ==
    /\ MgrSeqNext
    /\ cleaned_up' = FALSE
    /\ held' = held \cup ReturnedPrograms

\* the destructor of an object holding program p: kernels are released, the
\* program is left to the manager's cache
DestroyHolder(p) ==
    /\ p \in held
    /\ held' = held \ {p}
    /\ UNCHANGED <<mgrVars, cleaned_up>>

UseNext ==
    \/ ManagerCall
    \/ \E t \in Threads : Cleanup(t)
    \/ \E p \in ProgramIds : DestroyHolder(p)

(***************************************************************************)
(* Several FractionalDelayGPU objects constructed over one backend and     *)
(* destroyed in any order, with the backend's memory and coefficient       *)
(* table used in between.                                                  *)
(***************************************************************************)
FdNext ==
    \/ \E o \in SharingObjects, succeeds \in BOOLEAN : FractionalDelayGPUCreate(o, succeeds)
    \/ \E o \in SharingObjects : FractionalDelayGPUDestroy(o)
    \/ \E data_null, succeeds \in BOOLEAN : BackendUploadLagrangeMatrix(data_null, succeeds)
    \/ \E succeeds \in BOOLEAN : BackendAllocate(succeeds)
    \/ \E b \in BufferIds : BackendFree(b)

(***************************************************************************)
(* FractionalDelayGPU::ProcessFractionalDelay lines 107-118 and            *)
(* GPUProcessor::ProcessFractionalDelay lines 71-79: the loop that copies  *)
(* out_host into the output SignalBuffer.  Each beam of a SignalBuffer is  *)
(* a vector of its own; written[b] is the number of samples the memcpy     *)
(* into beam b was asked to write.                                         *)
(***************************************************************************)
NoStore == [pc |-> "idle", variant |-> "none", in_beams |-> 0, in_samples |-> 0,
            out_beams |-> 0, out_samples |-> 0, b |-> 0, written |-> <<>>,
            overrun |-> FALSE, ret |-> FALSE]

StoreInit == store = NoStore

StoreVariants == {"FractionalDelayGPU", "GPUProcessor"}

\* shapes of valid input buffers, and of output buffers that may be smaller
StoreSamples == MinValidSamples..(MinValidSamples + MaxStoreExtra)

\* the call up to line 105: any of the earlier checks or backend operations may
\* fail, and then the call returns false without touching the output
ProcessFractionalDelayCall(variant, in_beams, in_samples, out_beams, out_samples, reaches_copy) ==
    /\ store.pc \in {"idle", "done"}
    /\ store' = [NoStore EXCEPT !.variant = variant,
                                !.in_beams = in_beams, !.in_samples = in_samples,
                                !.out_beams = out_beams, !.out_samples = out_samples,
                                !.written = [k \in 1..out_beams |-> 0],
                                !.pc = IF reaches_copy THEN "copy" ELSE "done"]

\* one round of the loop: dst = output.GetBeamData(b); a null dst returns false,
\* otherwise memcpy(dst, ..., num_samples * sizeof(ComplexType)) with the
\* num_samples of the input
CopyBeamOut ==
    /\ store.pc = "copy"
    /\ store.b < store.in_beams
    /\ store' = IF GetBeamDataNull(store.out_beams, store.b)
                THEN [store EXCEPT !.pc = "done", !.ret = FALSE]
                ELSE [store EXCEPT !.written[store.b + 1] = store.in_samples,
                                   !.overrun = @ \/ store.in_samples > store.out_samples,
                                   !.b = @ + 1]

\* the loop is over: FreeDeviceMemory and return true; after a memcpy past the
\* end of a beam the behaviour is undefined and either value may come back
ReturnAfterCopy(ret) ==
    /\ store.pc = "copy"
    /\ store.b >= store.in_beams
    /\ ret \in (IF store.overrun THEN BOOLEAN ELSE {TRUE})
    /\ store' = [store EXCEPT !.pc = "done", !.ret = ret]

StoreNext ==
    \/ \E variant \in StoreVariants, in_beams \in 1..MaxStoreBeams, out_beams \in 0..MaxStoreBeams,
          in_samples \in StoreSamples, out_samples \in StoreSamples, reaches_copy \in BOOLEAN :
          ProcessFractionalDelayCall(variant, in_beams, in_samples, out_beams, out_samples, reaches_copy)
    \/ CopyBeamOut
    \/ \E ret \in BOOLEAN : ReturnAfterCopy(ret)

(***************************************************************************)
(* Move construction, move assignment and destruction of ComplexVector     *)
(* (complex_vector.cpp) and GeneratorGPU (generator/generator_gpu.cpp).    *)
(* A handle member holds the number of the constructor call that created   *)
(* the handle, 0 for nullptr.                                              *)
(***************************************************************************)
MoveObjects == {"x", "y"}

MoveClasses == {"ComplexVector", "GeneratorGPU"}

HandleKinds == {"buffer", "kernel_lfm_basic", "kernel_lfm_delayed", "program", "queue", "context"}

\* the handles an object of the class releases in its destructor; ComplexVector is
\* handed its context and queue and does not release them
OwnedKinds(class) ==
    IF class = "ComplexVector" THEN {"buffer"} ELSE HandleKinds \ {"buffer"}

NoHandles == [k \in HandleKinds |-> 0]

NoObject == [class |-> "none", alive |-> FALSE, handles |-> NoHandles, is_allocated_ |-> FALSE]

MoveInit ==
    /\ mv_objs = [o \in MoveObjects |-> NoObject]
    /\ mv_created = <<>>
    /\ mv_released = [n \in 1..MaxConstructions |-> [k \in HandleKinds |-> 0]]
    /\ mv_moves = 0

\* clRelease* on every handle of hs that is not nullptr and whose kind is in kinds
ReleaseHandles(released, hs, kinds) ==
    [n \in 1..MaxConstructions |-> [k \in HandleKinds |->
        IF k \in kinds /\ hs[k] = n THEN released[n][k] + 1 ELSE released[n][k]]]

\* ComplexVector::ComplexVector (lines 14-60) and GeneratorGPU::GeneratorGPU
\* (lines 19-42), both succeeding: the owned handles are created
ConstructObject(o, class) ==
    /\ ~mv_objs[o].alive
    /\ Len(mv_created) < MaxConstructions
    /\ mv_created' = Append(mv_created, class)
    /\ mv_objs' = [mv_objs EXCEPT ![o] =
           [class |-> class, alive |-> TRUE,
            handles |-> [k \in HandleKinds |->
                            IF k \in OwnedKinds(class) THEN Len(mv_created) + 1 ELSE 0],
            is_allocated_ |-> class = "ComplexVector"]]
    /\ UNCHANGED <<mv_released, mv_moves>>

\* the members of a moved-from object: the defaulted move of ComplexVector copies
\* gpu_buffer_ and is_allocated_ and leaves them in place; GeneratorGPU sets its
\* handles to nullptr (lines 64-71 and 98-105)
MovedFrom(obj) ==
    IF obj.class = "ComplexVector" THEN obj ELSE [obj EXCEPT !.handles = NoHandles]

\* ComplexVector(ComplexVector&&) = default (lines 71-72);
\* GeneratorGPU(GeneratorGPU&&) (lines 53-72)
MoveConstruct(dst, src) ==
    /\ dst # src
    /\ ~mv_objs[dst].alive
    /\ mv_objs[src].alive
    /\ mv_moves < MaxMoves
    /\ mv_moves' = mv_moves + 1
    /\ mv_objs' = [mv_objs EXCEPT ![dst] = mv_objs[src], ![src] = MovedFrom(mv_objs[src])]
    /\ UNCHANGED <<mv_created, mv_released>>

\* operator=(ComplexVector&&) = default (lines 74-75): the members are overwritten;
\* GeneratorGPU::operator=(GeneratorGPU&&) (lines 74-108): the current handles are
\* released first
MoveAssign(dst, src) ==
    /\ dst # src
    /\ mv_objs[dst].alive
    /\ mv_objs[src].alive
    /\ mv_objs[dst].class = mv_objs[src].class
    /\ mv_moves < MaxMoves
    /\ mv_moves' = mv_moves + 1
    /\ mv_released' = IF mv_objs[dst].class = "GeneratorGPU"
                      THEN ReleaseHandles(mv_released, mv_objs[dst].handles, OwnedKinds("GeneratorGPU"))
                      ELSE mv_released
    /\ mv_objs' = [mv_objs EXCEPT ![dst] = mv_objs[src], ![src] = MovedFrom(mv_objs[src])]
    /\ UNCHANGED mv_created

\* ~ComplexVector (lines 62-68) releases gpu_buffer_ when is_allocated_;
\* ~GeneratorGPU (lines 44-51) releases every handle that is not nullptr
DestroyObject(o) ==
    /\ mv_objs[o].alive
    /\ mv_released' =
          IF mv_objs[o].class = "ComplexVector" /\ ~mv_objs[o].is_allocated_
          THEN mv_released
          ELSE ReleaseHandles(mv_released, mv_objs[o].handles, OwnedKinds(mv_objs[o].class))
    /\ mv_objs' = [mv_objs EXCEPT ![o] = NoObject]
    /\ UNCHANGED <<mv_created, mv_moves>>

MoveNext ==
    \/ \E o \in MoveObjects, class \in MoveClasses : ConstructObject(o, class)
    \/ \E dst, src \in MoveObjects : MoveConstruct(dst, src)
    \/ \E dst, src \in MoveObjects : MoveAssign(dst, src)
    \/ \E o \in MoveObjects : DestroyObject(o)

Init == MgrInit /\ GpuInit /\ CpuInit /\ DelayInit /\ KernelInit /\ PipelineInit /\ QueueInit /\ SbInit /\ CmpInit /\ ProfInit /\ RowInit /\ CpuRunInit /\ LmInit /\ UseInit /\ StoreInit /\ MoveInit

SpecMgr == Init /\ [][MgrNext /\ UNCHANGED <<gpuVars, cpuVars, delayVars, kernelVars, pipeVars, queueVars, sbVars, cmpVars, profVars, rowVars, cpuRunVars, lmVars, useVars, storeVars, moveVars>>]_vars

SpecMgrSeq == Init /\ [][MgrSeqNext /\ UNCHANGED <<gpuVars, cpuVars, delayVars, kernelVars, pipeVars, queueVars, sbVars, cmpVars, profVars, rowVars, cpuRunVars, lmVars, useVars, storeVars, moveVars>>]_vars

SpecGpu == Init /\ [][GpuNext /\ UNCHANGED <<mgrVars, cpuVars, delayVars, kernelVars, pipeVars, queueVars, sbVars, cmpVars, profVars, rowVars, cpuRunVars, lmVars, useVars, storeVars, moveVars>>]_vars

SpecCpu == Init /\ [][CpuNext /\ UNCHANGED <<mgrVars, gpuVars, delayVars, kernelVars, pipeVars, queueVars, sbVars, cmpVars, profVars, rowVars, cpuRunVars, lmVars, useVars, storeVars, moveVars>>]_vars

SpecDelay == Init /\ [][DelayNext /\ UNCHANGED <<mgrVars, gpuVars, cpuVars, kernelVars, pipeVars, queueVars, sbVars, cmpVars, profVars, rowVars, cpuRunVars, lmVars, useVars, storeVars, moveVars>>]_vars

SpecKernel == Init /\ [][KernelNext /\ UNCHANGED <<mgrVars, gpuVars, cpuVars, delayVars, pipeVars, queueVars, sbVars, cmpVars, profVars, rowVars, cpuRunVars, lmVars, useVars, storeVars, moveVars>>]_vars
SpecPipeline == Init /\ [][PipelineNext /\ UNCHANGED <<mgrVars, cpuVars, delayVars, kernelVars, queueVars, sbVars, cmpVars, profVars, rowVars, cpuRunVars, lmVars, useVars, storeVars, moveVars>>]_vars
SpecQueue == Init /\ [][QueueNext /\ UNCHANGED <<mgrVars, gpuVars, cpuVars, delayVars, kernelVars, pipeVars, sbVars, cmpVars, profVars, rowVars, cpuRunVars, lmVars, useVars, storeVars, moveVars>>]_vars
SpecSb == Init /\ [][SbNext /\ UNCHANGED <<mgrVars, gpuVars, cpuVars, delayVars, kernelVars, pipeVars, queueVars, cmpVars, profVars, rowVars, cpuRunVars, lmVars, useVars, storeVars, moveVars>>]_vars
SpecCompare == Init /\ [][CmpNext /\ UNCHANGED <<mgrVars, gpuVars, cpuVars, delayVars, kernelVars, pipeVars, queueVars, sbVars, profVars, rowVars, cpuRunVars, lmVars, useVars, storeVars, moveVars>>]_vars
SpecProf == Init /\ [][ProfNext /\ UNCHANGED <<mgrVars, gpuVars, cpuVars, delayVars, kernelVars, pipeVars, queueVars, sbVars, cmpVars, rowVars, cpuRunVars, lmVars, useVars, storeVars, moveVars>>]_vars
SpecRow == Init /\ [][RowNext /\ UNCHANGED <<mgrVars, gpuVars, cpuVars, delayVars, kernelVars, pipeVars, queueVars, sbVars, cmpVars, profVars, cpuRunVars, lmVars, useVars, storeVars, moveVars>>]_vars
SpecCpuRun == Init /\ [][CpuRunNext /\ UNCHANGED <<mgrVars, gpuVars, cpuVars, delayVars, kernelVars, pipeVars, queueVars, sbVars, cmpVars, profVars, rowVars, lmVars, useVars, storeVars, moveVars>>]_vars
SpecLm == Init /\ [][LmNext /\ UNCHANGED <<mgrVars, gpuVars, cpuVars, delayVars, kernelVars, pipeVars, queueVars, sbVars, cmpVars, profVars, rowVars, cpuRunVars, useVars, storeVars, moveVars>>]_vars
SpecUse == Init /\ [][UseNext /\ UNCHANGED <<gpuVars, cpuVars, delayVars, kernelVars, pipeVars, queueVars, sbVars, cmpVars, profVars, rowVars, cpuRunVars, lmVars, storeVars, moveVars>>]_vars
SpecFd == Init /\ [][FdNext /\ UNCHANGED <<mgrVars, cpuVars, delayVars, kernelVars, pipeVars, queueVars, sbVars, cmpVars, profVars, rowVars, cpuRunVars, lmVars, useVars, storeVars, moveVars>>]_vars
SpecStore == Init /\ [][StoreNext /\ UNCHANGED <<mgrVars, gpuVars, cpuVars, delayVars, kernelVars, pipeVars, queueVars, sbVars, cmpVars, profVars, rowVars, cpuRunVars, lmVars, useVars, moveVars>>]_vars
SpecMove == Init /\ [][MoveNext /\ UNCHANGED <<mgrVars, gpuVars, cpuVars, delayVars, kernelVars, pipeVars, queueVars, sbVars, cmpVars, profVars, rowVars, cpuRunVars, lmVars, useVars, storeVars>>]_vars

\* C5: ExecuteFractionalDelay and ExecuteFractionalDelayWithProfiling return false
\* and put no kernel on the queue whenever UploadLagrangeMatrix has not succeeded
\* since the backend was last initialized, a Cleanup followed by a new Initialize
\* included.
C5_NoDispatchWithoutMatrix ==
    (be_last.op \in {"ExecuteFractionalDelay", "ExecuteFractionalDelayWithProfiling"}
        /\ ~be_last.since_init)
    => (~be_last.ret /\ ~be_last.dispatched)

C5_Witness ==
    /\ be_last.op = "ExecuteFractionalDelayWithProfiling"
    /\ ~be_last.since_init
    /\ ~be_last.ret
    /\ initialized_
    /\ ~upload_since_init
    /\ \E o \in Objects : fd_alive[o] /\ fd_is_initialized_[o]
    /\ proc.pc = "done" /\ proc.variant = "DetailedProfiling" /\ proc.exit = "kernel"

\* C10: in the three processing calls the device buffer allocated by the call is
\* released exactly once before the call returns, on every exit path, and is not
\* released while the call still uses it.
C10_BufferReleasedOncePerCall ==
    proc.dev # 0 => dev_frees[proc.dev] = (IF proc.pc = "done" THEN 1 ELSE 0)

C10_Witness ==
    /\ proc.pc = "done"
    /\ proc.variant = "DetailedProfiling"
    /\ proc.exit = "d2h"
    /\ proc.dev # 0
    /\ dev_frees[proc.dev] = 1

\* C7: the window index idx = n - delay_integer - 2 + i is resolved in two steps:
\* negative becomes -idx, then a value >= num_samples becomes 2*num_samples - idx - 2;
\* the tap reads the input at the resolved index only when it lies in
\* [0, num_samples) and contributes zero otherwise.  With num_samples = 100,
\* idx = -3 reads sample 3 and idx = 100 reads sample 98.
C7_TwoStepReflection ==
    (tap.running /\ tap.evaluated) =>
        LET N == tap.num_samples
            raw == tap.sample - tap.delay_integer - 2 + tap.i
            first == IF raw < 0 THEN 0 - raw ELSE raw
            second == IF first >= N THEN 2 * N - first - 2 ELSE first
        IN /\ tap.idx = second
           /\ tap.read = (second \in 0..(N - 1))
           /\ tap.term = (IF second \in 0..(N - 1) THEN InputData(second) ELSE 0)
           /\ (N = 100 /\ raw = 0 - 3) => (tap.read /\ tap.idx = 3)
           /\ (N = 100 /\ raw = 100) => (tap.read /\ tap.idx = 98)

C7_Witness ==
    /\ tap.running /\ tap.evaluated
    /\ tap.num_samples = 100
    /\ tap.interp_idx + tap.i = 100
    /\ tap.read
    /\ tap.idx = 98
    /\ tap.term = InputData(98)

\* C8: for every delay d the decomposition gives delay_integer = floor(d) and
\* delay_fraction = d - delay_integer with 0 <= delay_fraction < 1, so that
\* delay_integer + delay_fraction = d; d = -0.3 gives (-1, 0.7).
C8_DecompositionExact ==
    dec.stage \notin {"none", "taken"} =>
        /\ dec.cpu.delay_integer * One <= dec.delay
        /\ dec.delay < (dec.cpu.delay_integer + 1) * One
        /\ dec.cpu.delay_fraction >= 0
        /\ dec.cpu.delay_fraction < One
        /\ dec.cpu.delay_integer * One + dec.cpu.delay_fraction = dec.delay
        /\ dec.delay = 0 - 20132660 =>
              (dec.cpu.delay_integer = 0 - 1 /\ dec.cpu.delay_fraction = 46976204)

\* C9: the (delay_integer, lagrange_row) pair of the OpenCL host code, plain and
\* profiling, equals the pair of ExecuteFractionalDelayCPU, and the row equals
\* LagrangeMatrix::GetRowIndex(delay - floor(delay)).
C9_HostParamsAgree ==
    dec.stage = "done" =>
        /\ dec.gpu.delay_integer = dec.cpu.delay_integer
        /\ dec.gpu.lagrange_row = dec.cpu.lagrange_row
        /\ dec.gpu_profiling.delay_integer = dec.cpu.delay_integer
        /\ dec.gpu_profiling.lagrange_row = dec.cpu.lagrange_row
        /\ dec.cpu.lagrange_row = dec.row_index

\* C6: in the GPU dispatch every work-item's output depends only on the buffer
\* contents from before the kernel started: no work-item reads an element that
\* another work-item of the dispatch writes, so the result is the same for every
\* order of execution.
C6_WorkItemsIndependent ==
    kern.pc = "finished" =>
        \A gid \in kern.done :
            dev_mem[kern.output][gid] =
                KernelValue(kern.before, kern.params, kern.num_samples, gid)

\* C11: when ExecuteFull returns false because a host/device copy or the kernel
\* dispatch failed, the pipeline has released the device buffer it allocated and
\* holds no device memory at that moment.
C11_FailureReleasesBuffer ==
    (pipe.pc = "done" /\ ~pipe.ret /\ pipe.exit \in {"h2d", "kernel", "d2h"})
        => pipe.device_buffer_ \notin LiveBuffers

\* C12: in the non-blocking profiled path the three operations of one call are
\* submitted to the queue in the order H2D, kernel, D2H and take effect in that
\* order, and the host reads an operation's timestamps and copies the D2H result
\* into the output buffer only after waiting for that operation's event.
IsPrefix(s, t) == Len(s) <= Len(t) /\ \A k \in 1..Len(s) : s[k] = t[k]

C12_OrderedAndWaited ==
    /\ IsPrefix(exec_log \o queue_cmds, <<"h2d", "kernel", "d2h">>)
    /\ \A r \in read_log : r.status = "complete"
    /\ (host.returned /\ host.ret) => output_data = KernelEffect(host.input)

C12_Witness ==
    /\ host.variant = "DetailedProfiling"
    /\ host.returned /\ host.ret
    /\ output_data = KernelEffect(MaxQueueInput)
    /\ exec_log = <<"h2d", "kernel", "d2h">>
    /\ \E r \in read_log : r.what = "result"
    /\ \A op \in QueueOps : \E r \in read_log : r.what = "timestamps" /\ r.op = op

\* C15: after any sequence of public SignalBuffer operations the storage holds
\* exactly GetNumBeams() beams of exactly GetNumSamples() samples each.
C15_StorageMatchesShape ==
    /\ Len(sb.beams_) = sb.num_beams_
    /\ \A k \in 1..Len(sb.beams_) : Len(sb.beams_[k]) = sb.num_samples_

\* C20: SaveToFile of a valid buffer succeeds, and a LoadFromFile of that file
\* into any buffer succeeds and yields the same num_beams, num_samples and the
\* same real and imaginary value of every sample.
C20_SaveLoadRoundTrip ==
    /\ (io_last.op = "save" /\ io_last.valid) =>
          (io_last.ret /\ file = [exists |-> TRUE, bytes |-> FileImage(saved.buffer)])
    /\ (io_last.op = "load" /\ saved.fresh) =>
          /\ io_last.ret
          /\ sb.num_beams_ = saved.buffer.num_beams_
          /\ sb.num_samples_ = saved.buffer.num_samples_
          /\ sb.beams_ = saved.buffer.beams_

C20_Witness ==
    /\ io_last.op = "load"
    /\ io_last.ret
    /\ saved.fresh
    /\ sb.num_beams_ = MaxSbBeams
    /\ sb.num_samples_ = MinValidSamples + MaxExtraSamples
    /\ \E k \in 1..MaxSbBeams, n \in 1..MinValidSamples : sb.beams_[k][n][1] # sb.beams_[k][n][2]

\* C13: CompareResults and Validator::Validate return false, without reading
\* any sample of either buffer, whenever the two buffers differ in beam count
\* or in samples per beam.
C13_ShapeMismatchRejected ==
    (/\ cmp.op \in {"CompareResults", "Validate"}
     /\ (\/ cpu_results.num_beams_ # gpu_results.num_beams_
         \/ cpu_results.num_samples_ # gpu_results.num_samples_))
        => (~cmp.ret /\ cmp.samples_read = 0)

C13_Witness ==
    /\ cmp.op = "CompareResults"
    /\ IsValid(cpu_results) /\ IsValid(gpu_results)
    /\ cpu_results.num_beams_ = gpu_results.num_beams_
    /\ cpu_results.num_samples_ < gpu_results.num_samples_
    /\ ~cmp.ret /\ cmp.samples_read = 0

\* C14: for two structurally valid buffers of identical shape CompareResults
\* returns true and fills the metrics whatever the sample values are; points
\* above the tolerance never make CompareResults, Validator::Validate or
\* Application::CompareAndReport fail.
C14_ErrorsDoNotFail ==
    (/\ cmp.op # "none"
     /\ IsValid(cpu_results) /\ IsValid(gpu_results)
     /\ cpu_results.num_beams_ = gpu_results.num_beams_
     /\ cpu_results.num_samples_ = gpu_results.num_samples_)
        => /\ cmp.ret
           /\ cmp.metrics.filled
           /\ cmp.metrics.total_points = cpu_results.num_beams_ * cpu_results.num_samples_
           /\ cmp.metrics.errors_above_tolerance <= cmp.metrics.total_points

C14_Witness ==
    /\ cmp.op = "CompareAndReport"
    /\ cmp.ret
    /\ cmp.metrics.filled
    /\ cmp.metrics.errors_above_tolerance > 0
    /\ cmp.metrics.max_diff_real > cmp.tolerance
    /\ cmp.tolerance > 0

\* C16: StopTimer(name) for a name with no running timer changes nothing:
\* every recorded metric, the total time and every other running timer stay
\* as they were.
C16_StopWithoutStartIsNoOp ==
    [][(prof_last'.op = "StopTimer" /\ prof_last'.name \notin start_times_)
          => (/\ metrics_' = metrics_
              /\ total_time_ms' = total_time_ms
              /\ start_times_' = start_times_)]_vars

C16_Witness ==
    /\ prof_last.op = "StopTimer"
    /\ ~prof_last.running
    /\ profiling_enabled_
    /\ start_times_ # {}
    /\ \E n \in TimerNames : metrics_[n].present
    /\ ~metrics_[prof_last.name].present

RECURSIVE SumOfTimes(_)
\* the measurements added up one after the other, from 0.0
SumOfTimes(h) ==
    IF h = <<>> THEN BigZero
    ELSE DoubleAdd(SumOfTimes(SubSeq(h, 1, Len(h) - 1)), h[Len(h)])

\* C17: for every name, call_count is the number of measurements recorded
\* under it, time_ms their sum, min_time_ms and max_time_ms the smallest and
\* largest of them, avg_time_ms = time_ms / call_count, and
\* min_time_ms <= avg_time_ms <= max_time_ms.
C17_StatisticsOfAllMeasurements ==
    \A n \in TimerNames :
        LET h == measured[n] m == metrics_[n] IN
        /\ m.call_count = Len(h)
        /\ Len(h) > 0 =>
              /\ m.time_ms = SumOfTimes(h)
              /\ \E i \in 1..Len(h) : m.min_time_ms = h[i]
              /\ \E i \in 1..Len(h) : m.max_time_ms = h[i]
              /\ \A i \in 1..Len(h) : BigLeq(m.min_time_ms, h[i]) /\ BigLeq(h[i], m.max_time_ms)
              /\ m.avg_time_ms = DoubleDiv(m.time_ms, m.call_count)
              /\ BigLeq(m.min_time_ms, m.avg_time_ms)
              /\ BigLeq(m.avg_time_ms, m.max_time_ms)

\* floor(f * 48) for a float f in [0, 1), in exact arithmetic
ExactRow(f) == (f * (LAGRANGE_ROWS \div 16)) \div (One \div 16)

\* C18: for every f in [0, 1), GetRowIndex(f) = floor(f * 48), which lies in
\* [0, 47]; GetRowIndex(0.0) = 0; every f in [47/48, 1) maps to row 47; and
\* for any argument the row never exceeds 47.
C18_RowIsFloorOfProduct ==
    row_call.called =>
        LET f == row_call.delay_fraction IN
        /\ row_call.row \in 0..(LAGRANGE_ROWS - 1)
        /\ (0 <= f /\ f < One) => row_call.row = ExactRow(f)
        /\ f = 0 => row_call.row = 0
        /\ (ExactRow(f) = LAGRANGE_ROWS - 1) => row_call.row = LAGRANGE_ROWS - 1

\* C19: with a table whose row 0 is (0,0,1,0,0), a whole delay d gives
\* output[n] = input[n - d] for every n with 0 <= n - d < num_samples; with
\* d = 0 every sample is left equal to its input value.
C19_IntegerDelayShifts ==
    (cpu_run.called /\ cpu_run.delay % One = 0) =>
        LET d == cpu_run.delay \div One
            num_samples == Len(cpu_run.input)
        IN /\ Len(cpu_run.output) = num_samples
           /\ \A n \in 0..(num_samples - 1) :
                 (0 <= n - d /\ n - d < num_samples) => cpu_run.output[n + 1] = cpu_run.input[n - d + 1]
           /\ d = 0 => cpu_run.output = cpu_run.input

C19_Witness ==
    /\ cpu_run.called
    /\ cpu_run.delay = One
    /\ Len(cpu_run.input) = MaxRunSamples
    /\ cpu_run.output # cpu_run.input
    /\ cpu_run.output[2] = cpu_run.input[1]
    /\ cpu_run.input[1] # cpu_run.input[2]

\* the file holds exactly 48 rows of exactly 5 numbers each
WellShaped(f) ==
    /\ f.exists
    /\ f.num_rows = ROWS
    /\ f.odd_count = COLS

\* C21: loading a coefficient table succeeds only if the input holds exactly
\* 48 rows of exactly 5 numbers each; fewer or more rows, or a row of fewer or
\* more than 5 values, make the loader return false.
C21_OnlyExactShapeLoads ==
    (lm_last.op = "LoadFromJson" /\ lm_last.ret) => WellShaped(json_file)

\* C24: IsValid() is true exactly when a coefficient table has been loaded
\* successfully: false for a freshly constructed matrix and false after a
\* LoadFromJson that failed.
C24_ValidIffLoaded ==
    LagrangeIsValid(matrix_) <=> (lm_last.op = "LoadFromJson" /\ lm_last.ret)

\* C22: after an explicit OpenCLManager::Cleanup() the manager holds no command
\* queue, no context and no cached program, and every queue, context and program
\* it created has been released, so nothing is left for process shutdown.
C22_CleanupReleasesAll ==
    cleaned_up =>
        /\ queue_ = 0 /\ context_ = 0
        /\ CachedPrograms(program_cache_) = {}
        /\ \A q \in 1..cl_queues : q \in cl_queue_released
        /\ \A c \in 1..cl_contexts : c \in cl_ctx_released
        /\ \A p \in ProgramIds : cl_programs[p] # "" => cl_prog_released[p] >= 1

\* C23: every completed GetOrCompileProgram(s) returned a program that was
\* compiled from exactly the text s, so two different texts never receive the
\* same program.
C23_ProgramMatchesSource ==
    \A r \in ret_log : cl_programs[r.program] = r.source

\* C27: while the manager exists, a program held by a live object has not been
\* passed to clReleaseProgram by any manager operation.
C27_HeldProgramsUnreleased ==
    ~mgr_destroyed => \A p \in held : cl_prog_released[p] = 0

\* C25: whenever IsInitialized() of a live FractionalDelayGPU object returns
\* true, the backend it was given is in the initialized state, after any
\* sequence of constructing and destroying objects over the same backend.
C25_InitializedObjectHasInitializedBackend ==
    \A o \in SharingObjects : (fd_alive[o] /\ fd_is_initialized_[o]) => initialized_

\* C26: ProcessFractionalDelayWithDetailedProfiling has not returned, on any
\* path, while a non-blocking transfer it enqueued (the write from host_buf or
\* the read into out_host) is still queued or running.
C26_NoReturnWithPendingTransfer ==
    (host.variant = "DetailedProfiling" /\ host.returned)
        => \A k \in 1..Len(queue_cmds) : queue_cmds[k] \notin {"h2d", "d2h"}

\* C28: the two reflection tests are applied one after the other to the same
\* index, so a negative index whose mirror -idx is >= num_samples is reflected a
\* second time; a tap is dropped exactly when its unreflected index is
\* <= -(2*num_samples - 1) or >= 2*num_samples - 1, every other tap reads an
\* in-range sample, and no read falls outside [0, num_samples).
C28_DroppedExactlyBeyondDoubleLength ==
    (tap.running /\ tap.evaluated) =>
        LET N == tap.num_samples
            raw == tap.interp_idx + tap.i
        IN /\ (raw < 0 /\ 0 - raw >= N) => tap.idx = 2 * N - (0 - raw) - 2
           /\ ~tap.read <=> (raw <= 0 - (2 * N - 1) \/ raw >= 2 * N - 1)
           /\ tap.read => (tap.idx \in 0..(N - 1) /\ tap.term = InputData(tap.idx))

\* C28 witness: a negative index is reflected twice and then read
C28_Witness ==
    /\ tap.running /\ tap.evaluated
    /\ tap.interp_idx + tap.i < 0
    /\ 0 - (tap.interp_idx + tap.i) >= tap.num_samples
    /\ tap.read
    /\ tap.idx = tap.num_samples + (tap.interp_idx + tap.i) - 2 + tap.num_samples
    /\ tap.term = InputData(tap.idx)

\* C29: the two ProcessFractionalDelay functions write only inside the storage
\* of the output SignalBuffer: no beam of the output is written beyond its
\* num_samples, and when the output has fewer beams or fewer samples per beam
\* than the input the call returns false.
C29_WritesStayInsideOutput ==
    /\ \A k \in 1..Len(store.written) : store.written[k] <= store.out_samples
    /\ (store.pc = "done"
        /\ (store.out_beams < store.in_beams \/ store.out_samples < store.in_samples))
           => ~store.ret

\* every handle created by a constructor of the class has been released exactly once
ReleasedExactlyOnce(class) ==
    \A n \in 1..Len(mv_created) : mv_created[n] = class =>
        \A k \in OwnedKinds(class) : mv_released[n][k] = 1

\* C30: for ComplexVector and GeneratorGPU, after a move construction or a move
\* assignment followed by the destruction of both objects, every OpenCL handle
\* either object owned has been released exactly once.
C30_MovedHandlesReleasedOnce ==
    (mv_moves > 0 /\ \A o \in MoveObjects : ~mv_objs[o].alive)
        => \A class \in MoveClasses : ReleasedExactlyOnce(class)

\* the part of C30 that concerns GeneratorGPU alone
GeneratorHandlesReleasedOnce ==
    (mv_moves > 0 /\ \A o \in MoveObjects : ~mv_objs[o].alive)
        => ReleasedExactlyOnce("GeneratorGPU")

====
